---- MODULE Spec2Model ----
(***************************************************************************)
(* A model of the EC2 drift detector (solomon-os/go-test):                 *)
(*   - internal/drift/detector.go: Detect, DetectMultiple and the value    *)
(*     extraction / equality helpers;                                      *)
(*   - internal/worker/pool.go: Pool and Run.                              *)
(* Go strings are TLA+ strings; their byte order is given by StrOrder.     *)
(* A Go interface{} value is a record with a "kind" field (its dynamic     *)
(* type) and a payload.                                                    *)
(***************************************************************************)
EXTENDS Integers, Sequences, FiniteSets, TLC

VARIABLES
    \* ---- DetectMultiple (internal/drift/detector.go) ----
    attributes,     \* d.attributes of the detector
    awsInstances,   \* the actual-state map   (id -> EC2Instance)
    tfInstances,    \* the desired-state map  (id -> EC2Instance)
    ctxDone,        \* TRUE once ctx is cancelled
    mainPc,         \* position of the calling goroutine
    taskPc,         \* position of each per-instance goroutine
    results,        \* the buffered channel `results`
    chanClosed,     \* TRUE once close(results) ran
    wg,             \* the WaitGroup counter
    closerPc,       \* position of the goroutine that waits and closes
    report,         \* the DriftReport under construction
    observed,       \* history: what each task's ctx check saw
    arrival,        \* history: the ids in the order the results were received
    cancelledAtEntry, \* history: ctx was already cancelled when the call began
    \* ---- Detect called on its own ----
    dAws, dTf, dPc, dResult,
    \* ---- valuesEqual called on its own ----
    eqA, eqB,       \* the two interface{} arguments
    eqPc,           \* position of the caller
    eqResult,       \* the returned bool
    \* ---- extractValue called on its own ----
    exInstance,     \* the record
    exPath,         \* the path, a slice of segments
    exPc,           \* position of the caller
    exResult,       \* the returned (value, error)
    \* ---- retry.Do (internal/retry/retry.go) ----
    rCfg,           \* the Config passed by the caller
    rMaxAttempts,   \* cfg.MaxAttempts of Do's own copy of the Config
    rCtxDone,       \* TRUE once ctx is cancelled
    rAttempt,       \* the loop variable attempt
    rLastErr,       \* lastErr
    rDelay,         \* delay of the running backoff, in milliseconds
    rPc,            \* position of Do
    rResult,        \* the returned (value, error)
    rCalls,         \* history: the errors returned by the calls of operation
    rSleeps,        \* history: the number of backoffs started
    \* ---- terraform.Repository (internal/repository/terraform) ----
    heap,           \* the map objects: heap[a] is the key set of the map at a
    repoInstances,  \* r.instances: the address of a map, 0 for nil
    repoLoaded,     \* r.loaded
    held,           \* per client: the address of the map GetAll returned, or 0
    clientPc,       \* per client: where its GetAll call is
    parseCalls,     \* history: the number of calls of parser.ParseFile
    repoOp,         \* history: the last operation and what it returned
    \* ---- worker.Run on a shared Pool ----
    pool,           \* the shared Pool: concurrency and tokens in pool.sem
    jobs,           \* per Run call: the jobs slice
    runCtxDone,     \* per Run call: its ctx is cancelled
    jobPc,          \* per Run call and job index: position of the goroutine
    runResults,     \* per Run call: the results slice
    runWg,          \* per Run call: the WaitGroup counter
    runPc           \* per Run call: position of the caller

inputVars  == <<attributes, awsInstances, tfInstances, cancelledAtEntry>>
detectVars == <<inputVars, ctxDone, mainPc, taskPc, results, chanClosed, wg,
                closerPc, report, observed, arrival>>
callVars   == <<eqA, eqB, eqPc, eqResult, exInstance, exPath, exPc, exResult>>
retryVars  == <<rCfg, rMaxAttempts, rCtxDone, rAttempt, rLastErr, rDelay, rPc,
                rResult, rCalls, rSleeps>>
repoVars   == <<heap, repoInstances, repoLoaded, held, clientPc, parseCalls,
               repoOp>>
libVars    == <<retryVars, repoVars>>
singleVars == <<dAws, dTf, dPc, dResult, callVars, libVars>>
poolVars   == <<pool, jobs, runCtxDone, jobPc, runResults, runWg, runPc>>
vars       == <<detectVars, singleVars, poolVars>>

----------------------------------------------------------------------------
\* Bounds of the model.

\* Largest number of entries of the actual-state map.
MaxInstances == 2

\* The concurrency cap the callers configure (Config.Concurrency, --concurrency).
Concurrency == 1

\* Largest concurrency a worker Pool is created with.
MaxPoolConcurrency == 2

\* runtime.NumCPU() of the machine.
NumCPU == 2

\* Largest number of jobs the callers of Run hand to the Pool, all together.
MaxJobs == 3

\* Largest number of security groups of an instance record.
MaxGroups == 2

\* The longest string list valuesEqual is called with.
MaxListLen == 3

\* The largest number of segments of a path extractValue is called with.
MaxSegments == 3

\* The largest Config.MaxAttempts retry.Do is called with.
MaxRetryAttempts == 3

\* The largest number of maps the parser and GetAll create.
MaxMaps == 4

----------------------------------------------------------------------------
\* Go strings and their order.

\* Every string the model compares with <, in Go's (bytewise) order.
StrOrder == << "", "Env", "Name", "i-1", "i-2", "i-3", "i-4", "i-5",
               "prod", "sg-a", "sg-b", "sg-c", "web" >>

StrIndex(s) == CHOOSE i \in 1..Len(StrOrder) : StrOrder[i] = s

\* a < b on Go strings.
StrLess(a, b) == StrIndex(a) < StrIndex(b)

\* Identifiers of instances, in ascending order.
IdList == << "i-1", "i-2", "i-3", "i-4", "i-5" >>

----------------------------------------------------------------------------
\* models.EC2Instance and models.BlockDevice.

\* A []string: a nil slice has isNil = TRUE and no elements.
NilSlice == [isNil |-> TRUE, elems |-> << >>]
Slice(s) == [isNil |-> FALSE, elems |-> s]

\* A map[string]string: a nil map has isNil = TRUE and no keys.
EmptyFn == [k \in {} |-> ""]
NilMap == [isNil |-> TRUE, m |-> EmptyFn]
Map(f) == [isNil |-> FALSE, m |-> f]

\* m[k] on a Go map: the zero value "" when the key is absent.
MapGet(mp, k) == IF k \in DOMAIN mp.m THEN mp.m[k] ELSE ""

ZeroBlockDevice ==
    [VolumeSize |-> 0, VolumeType |-> "", DeleteOnTermination |-> FALSE,
     Encrypted |-> FALSE, IOPS |-> 0, Throughput |-> 0]

\* The zero EC2Instance with the given id.
ZeroInstance(id) ==
    [InstanceID |-> id, InstanceType |-> "", AMI |-> "", AvailabilityZone |-> "",
     SubnetID |-> "", VpcID |-> "", PrivateIP |-> "", PublicIP |-> "",
     KeyName |-> "", SecurityGroups |-> NilSlice, Tags |-> NilMap,
     RootBlockDevice |-> ZeroBlockDevice, EBSOptimized |-> FALSE,
     Monitoring |-> FALSE, IAMInstanceProfile |-> ""]

----------------------------------------------------------------------------
\* interface{} values.

NilVal         == [kind |-> "nil"]
StrVal(s)      == [kind |-> "string", v |-> s]
BoolVal(b)     == [kind |-> "bool", v |-> b]
IntVal(n)      == [kind |-> "int", v |-> n]
SliceVal(s)    == [kind |-> "[]string", v |-> s]
IntSliceVal(s) == [kind |-> "[]int", v |-> s]
MapVal(m)      == [kind |-> "map[string]string", v |-> m]
IntMapVal(m)   == [kind |-> "map[string]int", v |-> m]
StructVal(bd)  == [kind |-> "BlockDevice", v |-> bd]

\* reflect.ValueOf(x).Kind() == reflect.Slice / reflect.Map
IsSliceKind(x) == x.kind \in {"[]string", "[]int"}
IsMapKind(x)   == x.kind \in {"map[string]string", "map[string]int"}

\* reflect.DeepEqual: same dynamic type and the same contents; a nil slice
\* or map differs from an empty one (the payload carries isNil).
DeepEqual(a, b) == a.kind = b.kind /\ a = b

----------------------------------------------------------------------------
\* Attribute paths.  An attribute string is the sequence of its chunks: a
\* chunk is either the separator "." or a maximal piece without a ".".
\* "root_block_device.volume_size" is <<"root_block_device", ".", "volume_size">>
\* and the empty string is << >>.

RECURSIVE SplitFrom(_, _, _, _)
SplitFrom(s, i, cur, acc) ==
    IF i > Len(s) THEN Append(acc, cur)
    ELSE IF s[i] = "." THEN SplitFrom(s, i + 1, "", Append(acc, cur))
    ELSE SplitFrom(s, i + 1, s[i], acc)

\* strings.Split(attr, "."): never empty; Split("", ".") is <<"">>.
Split(attr) == SplitFrom(attr, 1, "", << >>)

DefaultAttributes ==
    << <<"instance_type">>, <<"ami">>, <<"availability_zone">>, <<"subnet_id">>,
       <<"security_groups">>, <<"tags">>, <<"key_name">>, <<"ebs_optimized">>,
       <<"monitoring">>, <<"iam_instance_profile">>,
       <<"root_block_device", ".", "volume_size">>,
       <<"root_block_device", ".", "volume_type">>,
       <<"root_block_device", ".", "encrypted">> >>

NewDetector(attrs) == IF Len(attrs) = 0 THEN DefaultAttributes ELSE attrs

----------------------------------------------------------------------------
\* Value extraction.  An extraction returns [ok, val, err].

Found(v)  == [ok |-> TRUE, val |-> v, err |-> ""]
Failed(e) == [ok |-> FALSE, val |-> NilVal, err |-> e]

\* The keys of fieldMap.
FieldNames ==
    {"instance_type", "ami", "availability_zone", "subnet_id", "vpc_id",
     "private_ip", "public_ip", "key_name", "security_groups", "tags",
     "ebs_optimized", "monitoring", "iam_instance_profile"}

\* fieldMap[name](instance), for name in FieldNames.
FieldGetter(instance, name) ==
    CASE name = "instance_type"        -> StrVal(instance.InstanceType)
      [] name = "ami"                  -> StrVal(instance.AMI)
      [] name = "availability_zone"    -> StrVal(instance.AvailabilityZone)
      [] name = "subnet_id"            -> StrVal(instance.SubnetID)
      [] name = "vpc_id"               -> StrVal(instance.VpcID)
      [] name = "private_ip"           -> StrVal(instance.PrivateIP)
      [] name = "public_ip"            -> StrVal(instance.PublicIP)
      [] name = "key_name"             -> StrVal(instance.KeyName)
      [] name = "security_groups"      -> SliceVal(instance.SecurityGroups)
      [] name = "tags"                 -> MapVal(instance.Tags)
      [] name = "ebs_optimized"        -> BoolVal(instance.EBSOptimized)
      [] name = "monitoring"           -> BoolVal(instance.Monitoring)
      [] name = "iam_instance_profile" -> StrVal(instance.IAMInstanceProfile)

extractBlockDeviceValue(bd, field) ==
    CASE field = "volume_size"           -> Found(IntVal(bd.VolumeSize))
      [] field = "volume_type"           -> Found(StrVal(bd.VolumeType))
      [] field = "delete_on_termination" -> Found(BoolVal(bd.DeleteOnTermination))
      [] field = "encrypted"             -> Found(BoolVal(bd.Encrypted))
      [] field = "iops"                  -> Found(IntVal(bd.IOPS))
      [] field = "throughput"            -> Found(IntVal(bd.Throughput))
      [] OTHER                           -> Failed("unknown block device attribute")

\* An extraction that fails for a tag the record does not have.
extractValue_AbsentTagFails(instance, path) ==
    IF Len(path) = 0 THEN Failed("empty path")
    ELSE IF path[1] = "root_block_device"
    THEN IF Len(path) = 1
         THEN Found(StructVal(instance.RootBlockDevice))
         ELSE extractBlockDeviceValue(instance.RootBlockDevice, path[2])
    ELSE IF path[1] = "tags" /\ Len(path) > 1
    THEN IF path[2] \in DOMAIN instance.Tags.m
         THEN Found(StrVal(instance.Tags.m[path[2]]))
         ELSE Failed("unknown tag")
    ELSE IF path[1] \notin FieldNames THEN Failed("unknown attribute")
    ELSE Found(FieldGetter(instance, path[1]))

\* An extraction that returns the whole block device for every sub-field.
extractValue_WholeBlockDevice(instance, path) ==
    IF Len(path) = 0 THEN Failed("empty path")
    ELSE IF path[1] = "root_block_device"
    THEN Found(StructVal(instance.RootBlockDevice))
    ELSE IF path[1] = "tags" /\ Len(path) > 1
    THEN Found(StrVal(MapGet(instance.Tags, path[2])))
    ELSE IF path[1] \notin FieldNames THEN Failed("unknown attribute")
    ELSE Found(FieldGetter(instance, path[1]))

extractValue(instance, path) ==
    IF Len(path) = 0 THEN Failed("empty path")
    ELSE IF path[1] = "root_block_device"
    THEN IF Len(path) = 1
         THEN Found(StructVal(instance.RootBlockDevice))
         ELSE extractBlockDeviceValue(instance.RootBlockDevice, path[2])
    ELSE IF path[1] = "tags" /\ Len(path) > 1
    THEN Found(StrVal(MapGet(instance.Tags, path[2])))
    ELSE IF path[1] \notin FieldNames THEN Failed("unknown attribute")
    ELSE Found(FieldGetter(instance, path[1]))

\* Returns [ok, aws, tf]: the two values, or ok = FALSE when either side fails.
getAttributeValues(aws, tf, attr) ==
    LET parts    == Split(attr)
        awsValue == extractValue(aws, parts)
        tfValue  == extractValue(tf, parts)
    IN  IF ~awsValue.ok THEN [ok |-> FALSE, aws |-> NilVal, tf |-> NilVal]
        ELSE IF ~tfValue.ok THEN [ok |-> FALSE, aws |-> NilVal, tf |-> NilVal]
        ELSE [ok |-> TRUE, aws |-> awsValue.val, tf |-> tfValue.val]

----------------------------------------------------------------------------
\* Equality of extracted values.

\* Insert x into the ascending sequence s.
RECURSIVE InsertSorted(_, _)
InsertSorted(x, s) ==
    IF s = << >> THEN << x >>
    ELSE IF StrLess(x, Head(s)) THEN << x >> \o s
    ELSE << Head(s) >> \o InsertSorted(x, Tail(s))

\* sort.Strings on a copy of s.
RECURSIVE SortStrings(_)
SortStrings(s) ==
    IF s = << >> THEN << >> ELSE InsertSorted(Head(s), SortStrings(Tail(s)))

\* A comparison of string lists by length and by the set of their elements.
slicesEqual_AsSets(a, b) ==
    IF a.kind # "[]string" THEN DeepEqual(a, b)
    ELSE IF b.kind # "[]string" THEN FALSE
    ELSE IF Len(a.v.elems) # Len(b.v.elems) THEN FALSE
    ELSE { a.v.elems[i] : i \in 1..Len(a.v.elems) } =
         { b.v.elems[i] : i \in 1..Len(b.v.elems) }

\* A comparison of string lists with reflect.DeepEqual alone.
slicesEqual_DeepEqualOnly(a, b) == DeepEqual(a, b)

slicesEqual(a, b) ==
    IF a.kind # "[]string" THEN DeepEqual(a, b)
    ELSE IF b.kind # "[]string" THEN FALSE
    ELSE IF Len(a.v.elems) # Len(b.v.elems) THEN FALSE
    ELSE LET aSorted == SortStrings(a.v.elems)
             bSorted == SortStrings(b.v.elems)
         IN  \A i \in 1..Len(aSorted) : aSorted[i] = bSorted[i]

mapsEqual(a, b) ==
    IF a.kind # "map[string]string" THEN DeepEqual(a, b)
    ELSE IF b.kind # "map[string]string" THEN FALSE
    ELSE IF Cardinality(DOMAIN a.v.m) # Cardinality(DOMAIN b.v.m) THEN FALSE
    ELSE \A k \in DOMAIN a.v.m : MapGet(b.v, k) = a.v.m[k]

\* A comparison in which a nil value equals every value.
valuesEqual_NilEqualsAny(a, b) ==
    IF a.kind = "nil" \/ b.kind = "nil" THEN TRUE
    ELSE IF IsSliceKind(a) /\ IsSliceKind(b) THEN slicesEqual(a, b)
    ELSE IF IsMapKind(a) /\ IsMapKind(b) THEN mapsEqual(a, b)
    ELSE DeepEqual(a, b)

valuesEqual(a, b) ==
    IF a.kind = "nil" /\ b.kind = "nil" THEN TRUE
    ELSE IF a.kind = "nil" \/ b.kind = "nil" THEN FALSE
    ELSE IF IsSliceKind(a) /\ IsSliceKind(b) THEN slicesEqual(a, b)
    ELSE IF IsMapKind(a) /\ IsMapKind(b) THEN mapsEqual(a, b)
    ELSE DeepEqual(a, b)

\* A slicesEqual that sorts its two arguments themselves.
ArgsAfterSlicesEqual_SortInPlace(a, b) ==
    IF a.kind # "[]string" \/ b.kind # "[]string" THEN << a, b >>
    ELSE IF Len(a.v.elems) # Len(b.v.elems) THEN << a, b >>
    ELSE << SliceVal([a.v EXCEPT !.elems = SortStrings(@)]),
            SliceVal([b.v EXCEPT !.elems = SortStrings(@)]) >>

\* The two arguments as they are in memory when slicesEqual returns: the
\* slices share their elements with the records they were read from, and
\* sort.Strings is given aSorted and bSorted, which are fresh slices that
\* the elements were copied to.
ArgsAfterSlicesEqual(a, b) == << a, b >>

\* The two arguments as they are in memory when valuesEqual returns; only
\* slicesEqual is given anything it could write to.
ArgsAfterValuesEqual(a, b) ==
    IF a.kind = "nil" \/ b.kind = "nil" THEN << a, b >>
    ELSE IF IsSliceKind(a) /\ IsSliceKind(b) THEN ArgsAfterSlicesEqual(a, b)
    ELSE << a, b >>

----------------------------------------------------------------------------
\* models.DriftResult and Detect.

DriftedAttr(path, awsValue, tfValue) ==
    [Path |-> path, AWSValue |-> awsValue, TerraformValue |-> tfValue]

DriftResult(id, hasDrift, driftedAttrs, error) ==
    [InstanceID |-> id, HasDrift |-> hasDrift, DriftedAttrs |-> driftedAttrs,
     Error |-> error]

\* An iteration that puts a drifted attribute in front of the earlier ones.
DetectStep_Prepend(result, aws, tf, attr) ==
    LET vals == getAttributeValues(aws, tf, attr)
    IN  IF ~vals.ok THEN result
        ELSE IF ~valuesEqual(vals.aws, vals.tf)
        THEN [result EXCEPT !.HasDrift = TRUE,
                            !.DriftedAttrs =
                               << DriftedAttr(attr, vals.aws, vals.tf) >> \o @]
        ELSE result

\* An iteration that reports an attribute it cannot extract as drift.
DetectStep_SkipIsDrift(result, aws, tf, attr) ==
    LET vals == getAttributeValues(aws, tf, attr)
    IN  IF ~vals.ok THEN [result EXCEPT !.HasDrift = TRUE]
        ELSE IF ~valuesEqual(vals.aws, vals.tf)
        THEN [result EXCEPT !.HasDrift = TRUE,
                            !.DriftedAttrs = Append(@, DriftedAttr(attr, vals.aws, vals.tf))]
        ELSE result

\* One iteration of the loop of Detect over d.attributes.
\* One iteration of the loop of Detect.  awsValue and tfValue are appended
\* after valuesEqual returned, with the contents they have by then.
DetectStep(result, aws, tf, attr) ==
    LET vals  == getAttributeValues(aws, tf, attr)
        after == ArgsAfterValuesEqual(vals.aws, vals.tf)
    IN  IF ~vals.ok THEN result
        ELSE IF ~valuesEqual(vals.aws, vals.tf)
        THEN [result EXCEPT !.HasDrift = TRUE,
                            !.DriftedAttrs = Append(@, DriftedAttr(attr, after[1], after[2]))]
        ELSE result

\* A loop that returns at the first attribute it cannot extract.
RECURSIVE DetectLoop_StopOnError(_, _, _, _, _)
DetectLoop_StopOnError(result, aws, tf, attrs, i) ==
    IF i > Len(attrs) THEN result
    ELSE IF ~getAttributeValues(aws, tf, attrs[i]).ok THEN result
    ELSE DetectLoop_StopOnError(DetectStep(result, aws, tf, attrs[i]),
                                aws, tf, attrs, i + 1)

RECURSIVE DetectLoop(_, _, _, _, _)
DetectLoop(result, aws, tf, attrs, i) ==
    IF i > Len(attrs) THEN result
    ELSE DetectLoop(DetectStep(result, aws, tf, attrs[i]), aws, tf, attrs, i + 1)

\* The record after a value read from it was handed to valuesEqual: the one
\* []string field shares its elements with the extracted value.
StoreBack(instance, before, after) ==
    IF before.kind = "[]string"
    THEN [instance EXCEPT !.SecurityGroups = after.v]
    ELSE instance

\* The two records as they are in memory after the loop of Detect ran over
\* attrs[i..].
RECURSIVE RecordsAfterLoop(_, _, _, _)
RecordsAfterLoop(aws, tf, attrs, i) ==
    IF i > Len(attrs) THEN [aws |-> aws, tf |-> tf]
    ELSE LET vals   == getAttributeValues(aws, tf, attrs[i])
             after  == ArgsAfterValuesEqual(vals.aws, vals.tf)
             stored == IF ~vals.ok THEN [aws |-> aws, tf |-> tf]
                       ELSE [aws |-> StoreBack(aws, vals.aws, after[1]),
                             tf  |-> StoreBack(tf, vals.tf, after[2])]
         IN  \* the records of this iteration are computed once, as r
             CHOOSE out \in { RecordsAfterLoop(r.aws, r.tf, attrs, i + 1) :
                                 r \in {stored} } : TRUE

\* The two records as they are in memory when Detect returns.
RecordsAfterDetect(attrs, awsInstance, tfInstance) ==
    RecordsAfterLoop(awsInstance, tfInstance, attrs, 1)

\* d.Detect(awsInstance, tfInstance) for a detector with d.attributes = attrs.
Detect(attrs, awsInstance, tfInstance) ==
    DetectLoop(DriftResult(awsInstance.InstanceID, FALSE, << >>, ""),
               awsInstance, tfInstance, attrs, 1)

----------------------------------------------------------------------------
\* DetectMultiple: the calling goroutine, one goroutine per actual-state
\* entry, and the goroutine that waits for them and closes the channel.

\* The identifiers the inputs are drawn from.
AllIds == { IdList[i] : i \in 1..MaxInstances }

\* An instance record of the given type; the other fields are zero.
Instance(id, type) == [ZeroInstance(id) EXCEPT !.InstanceType = type]

\* Actual-state maps as the callers build them: awsMap[inst.InstanceID] = inst.
AwsMaps ==
    UNION { [S -> {"t2.micro", "t2.large"}] : S \in SUBSET AllIds }

TfMaps == SUBSET AllIds

\* cap(results) = len(awsInstances)
ChanCap == Cardinality(DOMAIN awsInstances)

\* A canceled entry that forgets the identifier.
CanceledResult_NoID(id) == DriftResult("", FALSE, << >>, "context canceled")

CanceledResult(id) == DriftResult(id, FALSE, << >>, "context canceled")

\* A not-found entry that is not flagged as drift.
NotFoundResult_NoDrift(id) ==
    DriftResult(id, FALSE, << >>, "instance not found in Terraform state")

NotFoundResult(id) ==
    DriftResult(id, TRUE, << >>, "instance not found in Terraform state")

\* What the task of id sends once it is past the cancellation check.
TaskResult(id) ==
    IF id \notin DOMAIN tfInstances THEN NotFoundResult(id)
    ELSE Detect(attributes, awsInstances[id], tfInstances[id])

\* The two input maps as they are in memory after the task of id ran: the
\* maps hold pointers to the records that Detect is given.
MapsAfterTask(id) ==
    IF id \notin DOMAIN tfInstances
    THEN [aws |-> awsInstances, tf |-> tfInstances]
    ELSE LET recs == RecordsAfterDetect(attributes, awsInstances[id], tfInstances[id])
         IN  [aws |-> [awsInstances EXCEPT ![id] = recs.aws],
              tf  |-> [tfInstances EXCEPT ![id] = recs.tf]]

\* An accumulation that counts every result as drifted.
Accumulate_CountAll(rep, result) ==
    [rep EXCEPT !.Results = Append(@, result), !.DriftedInstances = @ + 1]

\* report.Results = append(report.Results, result); count it if drifted.
Accumulate(rep, result) ==
    [rep EXCEPT !.Results = Append(@, result),
                !.DriftedInstances = IF result.HasDrift THEN @ + 1 ELSE @]

\* Insert r into a sequence of results ascending by InstanceID.
RECURSIVE InsertByID(_, _)
InsertByID(r, s) ==
    IF s = << >> THEN << r >>
    ELSE IF StrLess(r.InstanceID, Head(s).InstanceID) THEN << r >> \o s
    ELSE << Head(s) >> \o InsertByID(r, Tail(s))

\* The results left in the order of arrival.
SortResults_Unsorted(s) == s

\* sort.Slice(report.Results, by InstanceID).
RECURSIVE SortResults(_)
SortResults(s) ==
    IF s = << >> THEN << >> ELSE InsertByID(Head(s), SortResults(Tail(s)))

InitPool ==
    /\ pool = [concurrency |-> 0, sem |-> 0]
    /\ jobs = << >>
    /\ runCtxDone = << >>
    /\ jobPc = << >>
    /\ runResults = << >>
    /\ runWg = << >>
    /\ runPc = << >>

InitEqualOff ==
    /\ eqA = NilVal
    /\ eqB = NilVal
    /\ eqPc = "off"
    /\ eqResult = FALSE

InitExtractOff ==
    /\ exInstance = ZeroInstance("")
    /\ exPath = << >>
    /\ exPc = "off"
    /\ exResult = Failed("")

InitCallsOff ==
    /\ InitEqualOff
    /\ InitExtractOff

InitRetryOff ==
    /\ rCfg = [MaxAttempts |-> 0, InitialDelay |-> 0, MaxDelay |-> 0,
               Multiplier |-> 0, Jitter |-> 0, ShouldRetry |-> "nil"]
    /\ rMaxAttempts = 0
    /\ rCtxDone = FALSE
    /\ rAttempt = 0
    /\ rLastErr = "nil"
    /\ rDelay = 0
    /\ rPc = "off"
    /\ rResult = [Value |-> "", Err |-> "nil"]
    /\ rCalls = << >>
    /\ rSleeps = 0

InitRepoOff ==
    /\ heap = << >>
    /\ repoInstances = 0
    /\ repoLoaded = FALSE
    /\ held = << >>
    /\ clientPc = << >>
    /\ parseCalls = 0
    /\ repoOp = [op |-> "off"]

InitLibsOff ==
    /\ InitRetryOff
    /\ InitRepoOff

InitDetectCallOff ==
    /\ dAws = ZeroInstance("")
    /\ dTf = ZeroInstance("")
    /\ dPc = "off"
    /\ dResult = DriftResult("", FALSE, << >>, "")

InitSingle ==
    /\ InitDetectCallOff
    /\ InitCallsOff
    /\ InitLibsOff

\* The state at the entry of DetectMultiple, up to the creation of the channel.
Init ==
    /\ attributes = NewDetector(<< >>)
    /\ \E m \in AwsMaps : awsInstances = [id \in DOMAIN m |-> Instance(id, m[id])]
    /\ \E T \in TfMaps : tfInstances = [id \in T |-> Instance(id, "t2.micro")]
    /\ ctxDone \in BOOLEAN
    /\ mainPc = "spawn"
    /\ taskPc = [id \in DOMAIN awsInstances |-> "idle"]
    /\ results = << >>
    /\ chanClosed = FALSE
    /\ wg = 0
    /\ closerPc = "idle"
    /\ report = [TotalInstances |-> Cardinality(DOMAIN awsInstances),
                 DriftedInstances |-> 0, Results |-> << >>]
    /\ observed = [id \in DOMAIN awsInstances |-> "none"]
    /\ arrival = << >>
    /\ cancelledAtEntry = ctxDone
    /\ InitSingle
    /\ InitPool

\* for instanceID, awsInst := range awsInstances { wg.Add(1); go func(...) }
Spawn(id) ==
    /\ mainPc = "spawn"
    /\ taskPc[id] = "idle"
    /\ wg' = wg + 1
    /\ taskPc' = [taskPc EXCEPT ![id] = "select"]
    /\ UNCHANGED <<singleVars, poolVars, inputVars, arrival, ctxDone, mainPc, results,
                   chanClosed, closerPc, report, observed>>

\* go func() { wg.Wait(); close(results) }(), after the loop over awsInstances.
StartCloser ==
    /\ mainPc = "spawn"
    /\ \A id \in DOMAIN awsInstances : taskPc[id] # "idle"
    /\ closerPc' = "wait"
    /\ mainPc' = "collect"
    /\ UNCHANGED <<singleVars, poolVars, inputVars, arrival, ctxDone, taskPc, results,
                   chanClosed, wg, report, observed>>

\* A task that returns on cancellation without sending a result.
TaskSelect_DropCanceled(id) ==
    /\ taskPc[id] = "select"
    /\ IF ctxDone
       THEN /\ taskPc' = [taskPc EXCEPT ![id] = "exit"]
            /\ observed' = [observed EXCEPT ![id] = "canceled"]
       ELSE /\ taskPc' = [taskPc EXCEPT ![id] = "lookup"]
            /\ observed' = [observed EXCEPT ![id] = "live"]
    /\ UNCHANGED <<singleVars, poolVars, inputVars, arrival, ctxDone, mainPc, results,
                   chanClosed, wg, closerPc, report>>

\* A task that never looks at the context.
TaskSelect_NoCheck(id) ==
    /\ taskPc[id] = "select"
    /\ taskPc' = [taskPc EXCEPT ![id] = "lookup"]
    /\ observed' = [observed EXCEPT ![id] = IF ctxDone THEN "canceled" ELSE "live"]
    /\ UNCHANGED <<singleVars, poolVars, inputVars, arrival, ctxDone, mainPc, results,
                   chanClosed, wg, closerPc, report>>

\* select { case <-ctx.Done(): results <- canceled; return  default: }
TaskSelect(id) ==
    /\ taskPc[id] = "select"
    /\ IF ctxDone
       THEN /\ Len(results) < ChanCap
            /\ results' = Append(results, CanceledResult(id))
            /\ taskPc' = [taskPc EXCEPT ![id] = "exit"]
            /\ observed' = [observed EXCEPT ![id] = "canceled"]
       ELSE /\ taskPc' = [taskPc EXCEPT ![id] = "lookup"]
            /\ observed' = [observed EXCEPT ![id] = "live"]
            /\ UNCHANGED results
    /\ UNCHANGED <<singleVars, poolVars, inputVars, arrival, ctxDone, mainPc,
                   chanClosed, wg, closerPc, report>>

\* A task that appends its result to the report itself.
TaskRun_WritesReport(id) ==
    /\ taskPc[id] = "lookup"
    /\ report' = Accumulate(report, TaskResult(id))
    /\ taskPc' = [taskPc EXCEPT ![id] = "exit"]
    /\ UNCHANGED <<singleVars, poolVars, inputVars, arrival, ctxDone, mainPc,
                   results, chanClosed, wg, closerPc, observed>>

\* A task that looks at the context again before it sends.
TaskRun_Recheck(id) ==
    /\ taskPc[id] = "lookup"
    /\ Len(results) < ChanCap
    /\ results' = Append(results, IF ctxDone THEN CanceledResult(id) ELSE TaskResult(id))
    /\ taskPc' = [taskPc EXCEPT ![id] = "exit"]
    /\ UNCHANGED <<singleVars, poolVars, inputVars, arrival, ctxDone, mainPc,
                   chanClosed, wg, closerPc, report, observed>>

\* tfInst, ok := tfInstances[id]; not found or Detect; results <- result
TaskRun(id) ==
    /\ taskPc[id] = "lookup"
    /\ Len(results) < ChanCap
    /\ results' = Append(results, TaskResult(id))
    /\ awsInstances' = MapsAfterTask(id).aws
    /\ tfInstances' = MapsAfterTask(id).tf
    /\ taskPc' = [taskPc EXCEPT ![id] = "exit"]
    /\ UNCHANGED <<singleVars, poolVars, attributes, cancelledAtEntry, arrival,
                   ctxDone, mainPc, chanClosed, wg, closerPc, report, observed>>

\* A task that returns on cancellation without wg.Done().
TaskDone_NotWhenCanceled(id) ==
    /\ taskPc[id] = "exit"
    /\ observed[id] # "canceled"
    /\ wg' = wg - 1
    /\ taskPc' = [taskPc EXCEPT ![id] = "done"]
    /\ UNCHANGED <<singleVars, poolVars, inputVars, arrival, ctxDone, mainPc, results,
                   chanClosed, closerPc, report, observed>>

\* defer wg.Done()
TaskDone(id) ==
    /\ taskPc[id] = "exit"
    /\ wg' = wg - 1
    /\ taskPc' = [taskPc EXCEPT ![id] = "done"]
    /\ UNCHANGED <<singleVars, poolVars, inputVars, arrival, ctxDone, mainPc, results,
                   chanClosed, closerPc, report, observed>>

\* wg.Wait() returns
CloserWait ==
    /\ closerPc = "wait"
    /\ wg = 0
    /\ closerPc' = "close"
    /\ UNCHANGED <<singleVars, poolVars, inputVars, arrival, ctxDone, mainPc, taskPc,
                   results, chanClosed, wg, report, observed>>

\* close(results)
CloserClose ==
    /\ closerPc = "close"
    /\ chanClosed' = TRUE
    /\ closerPc' = "done"
    /\ UNCHANGED <<singleVars, poolVars, inputVars, arrival, ctxDone, mainPc, taskPc,
                   results, wg, report, observed>>

\* One iteration of `for result := range results`.
Collect ==
    /\ mainPc = "collect"
    /\ results # << >>
    /\ report' = Accumulate(report, Head(results))
    /\ arrival' = Append(arrival, Head(results).InstanceID)
    /\ results' = Tail(results)
    /\ UNCHANGED <<singleVars, poolVars, inputVars, ctxDone, mainPc, taskPc,
                   chanClosed, wg, closerPc, observed>>

\* The range loop ends on the closed, drained channel; sort and return.
Finish ==
    /\ mainPc = "collect"
    /\ results = << >>
    /\ chanClosed
    /\ report' = [report EXCEPT !.Results = SortResults(@)]
    /\ mainPc' = "done"
    /\ UNCHANGED <<singleVars, poolVars, inputVars, arrival, ctxDone, taskPc, results,
                   chanClosed, wg, closerPc, observed>>

\* The caller's context is cancelled (or its deadline passes) during the call.
Cancel ==
    /\ ~ctxDone
    /\ mainPc # "done"
    /\ ctxDone' = TRUE
    /\ UNCHANGED <<singleVars, poolVars, inputVars, arrival, mainPc, taskPc, results,
                   chanClosed, wg, closerPc, report, observed>>

Next ==
    \/ \E id \in DOMAIN awsInstances : Spawn(id)
    \/ StartCloser
    \/ \E id \in DOMAIN awsInstances : TaskSelect(id)
    \/ \E id \in DOMAIN awsInstances : TaskRun(id)
    \/ \E id \in DOMAIN awsInstances : TaskDone(id)
    \/ CloserWait
    \/ CloserClose
    \/ Collect
    \/ Finish
    \/ Cancel

Spec == Init /\ [][Next]_vars

\* The steps of the goroutines of DetectMultiple: every step but the caller's
\* cancellation.
Progress ==
    \/ \E id \in DOMAIN awsInstances : Spawn(id)
    \/ StartCloser
    \/ \E id \in DOMAIN awsInstances : TaskSelect(id)
    \/ \E id \in DOMAIN awsInstances : TaskDone(id)
    \/ CloserWait
    \/ CloserClose
    \/ Collect
    \/ Finish
    \/ \E id \in DOMAIN awsInstances : TaskRun(id)

\* The Go scheduler keeps running some goroutine while one can run; the caller
\* may cancel at any time or never.
FairSpec == Init /\ [][Next]_vars /\ WF_vars(Progress)

----------------------------------------------------------------------------
\* Detect called on one pair of records.

RECURSIVE SeqsUpTo(_, _)
\* The sequences over S of length at most n.
SeqsUpTo(S, n) ==
    IF n = 0 THEN { << >> }
    ELSE LET shorter == SeqsUpTo(S, n - 1)
         IN  shorter \cup { Append(q, x) : q \in shorter, x \in S }

SecurityGroupValues ==
    { NilSlice } \cup { Slice(q) : q \in SeqsUpTo({"sg-a", "sg-b"}, MaxGroups) }

TagValues ==
    { NilMap, Map(EmptyFn), Map([k \in {"Name"} |-> "web"]),
      Map([k \in {"Name"} |-> ""]), Map([k \in {"Env"} |-> ""]) }

\* Instance types with the size of their root volume.
InstanceSizes == { <<"t2.micro", 8>>, <<"t2.large", 100>> }

\* The instance records Detect is tried on.
InstanceRecords(id) ==
    { [ZeroInstance(id) EXCEPT !.InstanceType = ts[1], !.SecurityGroups = g,
                               !.Tags = tg, !.RootBlockDevice.VolumeSize = ts[2]] :
        ts \in InstanceSizes, g \in SecurityGroupValues, tg \in TagValues }

\* convertEC2Instance: the record built from a described instance with the
\* given type, group ids and tags.  Tags and SecurityGroups are made non-nil
\* before they are filled.
convertEC2Instance(id, type, groups, tags) ==
    [ZeroInstance(id) EXCEPT !.InstanceType = type,
                             !.SecurityGroups = Slice(groups),
                             !.Tags = Map(tags)]

\* The attribute lists the detector is constructed with.
AttrLists ==
    { << >>,
      << <<"instance_type">> >>,
      << <<"tags", ".", "Name">>, <<"security_groups">>, <<"bogus">>, << >>,
         <<"root_block_device", ".", "bogus">>, <<"instance_type">> >>,
      << <<"root_block_device">>, <<"tags", ".", "Env">>,
         <<"instance_type", ".", "foo">>, <<"tags">>,
         <<"root_block_device", ".", "volume_size">> >> }

InitDetectOff ==
    /\ awsInstances = << >>
    /\ tfInstances = << >>
    /\ ctxDone = FALSE
    /\ mainPc = "off"
    /\ taskPc = << >>
    /\ results = << >>
    /\ chanClosed = FALSE
    /\ wg = 0
    /\ closerPc = "off"
    /\ report = [TotalInstances |-> 0, DriftedInstances |-> 0, Results |-> << >>]
    /\ observed = << >>
    /\ arrival = << >>
    /\ cancelledAtEntry = FALSE

SingleInit ==
    /\ \E a \in AttrLists : attributes = NewDetector(a)
    /\ dAws \in InstanceRecords("i-1")
    /\ dTf \in InstanceRecords("i-1")
    /\ dPc = "call"
    /\ dResult = DriftResult("", FALSE, << >>, "")
    /\ InitCallsOff
    /\ InitLibsOff
    /\ InitDetectOff
    /\ InitPool

\* result := d.Detect(awsInstance, tfInstance)
DetectCall ==
    /\ dPc = "call"
    /\ dResult' = Detect(attributes, dAws, dTf)
    /\ dAws' = RecordsAfterDetect(attributes, dAws, dTf).aws
    /\ dTf' = RecordsAfterDetect(attributes, dAws, dTf).tf
    /\ dPc' = "returned"
    /\ UNCHANGED <<callVars, libVars, detectVars, poolVars>>

SingleNext == DetectCall

SpecDetect == SingleInit /\ [][SingleNext]_vars

----------------------------------------------------------------------------
\* valuesEqual called on two interface{} values.

\* []string values: the nil slice and the slices of up to MaxListLen elements.
StringLists ==
    { NilSlice } \cup { Slice(q) : q \in SeqsUpTo({"sg-a", "sg-b"}, MaxListLen) }

\* map[string]string values: the nil map and the maps over two keys.
StringMaps ==
    { NilMap } \cup
    { Map(f) : f \in UNION { [K -> {"", "web"}] : K \in SUBSET {"Name", "Env"} } }

\* The values valuesEqual is tried on: the types of the record's fields, and
\* values of other types.
Values ==
    { NilVal } \cup
    { StrVal(x) : x \in {"", "web"} } \cup
    { IntVal(n) : n \in {0, 100} } \cup
    { BoolVal(b) : b \in BOOLEAN } \cup
    { SliceVal(l) : l \in StringLists } \cup
    { IntSliceVal(Slice(q)) : q \in { << >>, << 100 >> } } \cup
    { MapVal(m) : m \in StringMaps } \cup
    { IntMapVal(Map(f)) : f \in { EmptyFn, [k \in {"Name"} |-> 100] } } \cup
    { StructVal(bd) : bd \in { ZeroBlockDevice,
                               [ZeroBlockDevice EXCEPT !.VolumeSize = 100] } }

EqualInit ==
    /\ eqA \in Values
    /\ eqB \in Values
    /\ eqPc = "call"
    /\ eqResult = FALSE
    /\ attributes = DefaultAttributes
    /\ InitExtractOff
    /\ InitLibsOff
    /\ InitDetectCallOff
    /\ InitDetectOff
    /\ InitPool

\* got := d.valuesEqual(a, b)
ValuesEqualCall ==
    /\ eqPc = "call"
    /\ eqResult' = valuesEqual(eqA, eqB)
    /\ eqA' = ArgsAfterValuesEqual(eqA, eqB)[1]
    /\ eqB' = ArgsAfterValuesEqual(eqA, eqB)[2]
    /\ eqPc' = "returned"
    /\ UNCHANGED <<exInstance, exPath, exPc, exResult, libVars,
                   dAws, dTf, dPc, dResult, detectVars, poolVars>>

EqualNext == ValuesEqualCall

SpecEqual == EqualInit /\ [][EqualNext]_vars

----------------------------------------------------------------------------
\* extractValue called on a record and a path.

\* A record whose fields all carry a value.
FullInstance ==
    [InstanceID |-> "i-1", InstanceType |-> "t2.micro", AMI |-> "ami-123",
     AvailabilityZone |-> "us-east-1a", SubnetID |-> "subnet-1",
     VpcID |-> "vpc-1", PrivateIP |-> "10.0.0.1", PublicIP |-> "54.0.0.1",
     KeyName |-> "key-1", SecurityGroups |-> Slice(<<"sg-b", "sg-a">>),
     Tags |-> Map([k \in {"Name"} |-> "web"]),
     RootBlockDevice |->
        [VolumeSize |-> 100, VolumeType |-> "gp3", DeleteOnTermination |-> TRUE,
         Encrypted |-> FALSE, IOPS |-> 3000, Throughput |-> 125],
     EBSOptimized |-> TRUE, Monitoring |-> FALSE,
     IAMInstanceProfile |-> "profile-1"]

\* The records extractValue is tried on.
ExtractRecords ==
    { ZeroInstance("i-1"),
      FullInstance,
      [FullInstance EXCEPT !.Tags = Map([k \in {"Name"} |-> ""]),
                           !.EBSOptimized = FALSE, !.Monitoring = TRUE,
                           !.RootBlockDevice.DeleteOnTermination = FALSE,
                           !.RootBlockDevice.Encrypted = TRUE],
      [FullInstance EXCEPT !.Tags = Map(EmptyFn), !.SecurityGroups = Slice(<< >>)] }

\* First segments: the keys of fieldMap, root_block_device, and others.
HeadSegments == FieldNames \cup {"root_block_device", "bogus", ""}

\* Later segments: sub-fields of the block device, tag keys, and others.
SubSegments ==
    {"volume_size", "volume_type", "delete_on_termination", "encrypted",
     "iops", "throughput", "Name", "Env", "bogus", "instance_type"}

\* The paths extractValue is tried on: the empty path and the paths of up to
\* MaxSegments segments.
ExtractPaths ==
    { << >> } \cup
    { << h >> \o rest :
         h \in HeadSegments, rest \in SeqsUpTo(SubSegments, MaxSegments - 1) }

ExtractInit ==
    /\ exInstance \in ExtractRecords
    /\ exPath \in ExtractPaths
    /\ exPc = "call"
    /\ exResult = Failed("")
    /\ attributes = DefaultAttributes
    /\ InitEqualOff
    /\ InitLibsOff
    /\ InitDetectCallOff
    /\ InitDetectOff
    /\ InitPool

\* got, err := d.extractValue(instance, path)
ExtractCall ==
    /\ exPc = "call"
    /\ exResult' = extractValue(exInstance, exPath)
    /\ exPc' = "returned"
    /\ UNCHANGED <<exInstance, exPath, eqA, eqB, eqPc, eqResult, libVars,
                   dAws, dTf, dPc, dResult, detectVars, poolVars>>

ExtractNext == ExtractCall

SpecExtract == ExtractInit /\ [][ExtractNext]_vars

----------------------------------------------------------------------------
\* retry.Do and calculateDelay.  Durations are in milliseconds, Jitter and
\* the random number are in tenths.

\* The errors operation returns: none, one of the tests' temporary errors,
\* and the error the tests' ShouldRetry predicate rejects.
OperationErrors == {"nil", "temporary error", "non-retryable"}

\* cfg.ShouldRetry(err) for the predicate of the tests.
ShouldRetry(cfg, err) == err # "non-retryable"

\* isRetryable(err, cfg.ShouldRetry)
isRetryable(cfg, err) ==
    IF cfg.ShouldRetry # "nil" THEN ShouldRetry(cfg, err) ELSE TRUE

RECURSIVE Pow(_, _)
\* math.Pow(b, e) for a natural exponent.
Pow(b, e) == IF e = 0 THEN 1 ELSE b * Pow(b, e - 1)

\* calculateDelay(cfg, attempt), where rnd is what rand.Float64() returns,
\* in tenths (0..9).
calculateDelay(cfg, attempt, rnd) ==
    LET exp    == cfg.InitialDelay * Pow(cfg.Multiplier, attempt)
        capped == IF exp > cfg.MaxDelay THEN cfg.MaxDelay ELSE exp
        jitterRange10 == capped * cfg.Jitter
        jitter100     == (rnd * 2 - 10) * jitterRange10
        withJitter100 == IF cfg.Jitter > 0 THEN capped * 100 + jitter100
                         ELSE capped * 100
        nonNegative   == IF withJitter100 < 0 THEN 0 ELSE withJitter100
    IN  nonNegative \div 100

\* The values of rand.Float64() that are tried, in tenths.
RandValues == {0, 5, 9}

\* The configurations Do is called with.
RetryConfigs ==
    { [MaxAttempts |-> n, InitialDelay |-> 100, MaxDelay |-> md,
       Multiplier |-> 2, Jitter |-> j, ShouldRetry |-> sr] :
        n \in 0..MaxRetryAttempts, md \in {200, 1000}, j \in {0, 5, 10},
        sr \in {"nil", "predicate"} }

\* A test for the last attempt that no attempt of the loop passes.
IsLastAttempt_Never(attempt, maxAttempts) == attempt = maxAttempts

\* if attempt == cfg.MaxAttempts-1 { break }
IsLastAttempt(attempt, maxAttempts) == attempt = maxAttempts - 1

Returned(value, err) == [Value |-> value, Err |-> err]

RetryInit ==
    /\ rCfg \in RetryConfigs
    /\ rMaxAttempts = 0
    /\ rCtxDone \in BOOLEAN
    /\ rAttempt = 0
    /\ rLastErr = "nil"
    /\ rDelay = 0
    /\ rPc = "call"
    /\ rResult = Returned("", "nil")
    /\ rCalls = << >>
    /\ rSleeps = 0
    /\ attributes = DefaultAttributes
    /\ InitRepoOff
    /\ InitCallsOff
    /\ InitDetectCallOff
    /\ InitDetectOff
    /\ InitPool

\* Do is entered: if cfg.MaxAttempts < 1 { cfg.MaxAttempts = 1 }
DoCall ==
    /\ rPc = "call"
    /\ rMaxAttempts' = IF rCfg.MaxAttempts < 1 THEN 1 ELSE rCfg.MaxAttempts
    /\ rAttempt' = 0
    /\ rPc' = "loop"
    /\ UNCHANGED <<rCfg, rCtxDone, rLastErr, rDelay, rResult, rCalls, rSleeps,
                   repoVars, dAws, dTf, dPc, dResult, callVars, detectVars,
                   poolVars>>

\* The loop condition and the select on ctx.Done() before the attempt.
DoCheck ==
    /\ rPc = "loop"
    /\ IF ~(rAttempt < rMaxAttempts)
       THEN /\ rResult' = Returned("", "operation failed after attempts")
            /\ rPc' = "returned"
       ELSE IF rCtxDone
       THEN /\ rResult' = Returned("", IF rLastErr # "nil"
                                       THEN "context canceled after attempts"
                                       ELSE "context canceled")
            /\ rPc' = "returned"
       ELSE /\ rPc' = "operation"
            /\ UNCHANGED rResult
    /\ UNCHANGED <<rCfg, rMaxAttempts, rCtxDone, rAttempt, rLastErr, rDelay,
                   rCalls, rSleeps,
                   repoVars, dAws, dTf, dPc, dResult, callVars, detectVars,
                   poolVars>>

\* result, err := operation(ctx) and what follows it, up to the backoff.
DoOperation ==
    /\ rPc = "operation"
    /\ \E err \in OperationErrors :
          /\ rCalls' = Append(rCalls, err)
          /\ IF err = "nil"
             THEN /\ rResult' = Returned("success", "nil")
                  /\ rPc' = "returned"
                  /\ UNCHANGED <<rLastErr, rDelay, rSleeps>>
             ELSE /\ rLastErr' = err
                  /\ IF rCfg.ShouldRetry # "nil" /\ ~ShouldRetry(rCfg, err)
                     THEN /\ rResult' = Returned("", err)
                          /\ rPc' = "returned"
                          /\ UNCHANGED <<rDelay, rSleeps>>
                     ELSE IF ~isRetryable(rCfg, err)
                     THEN /\ rResult' = Returned("", err)
                          /\ rPc' = "returned"
                          /\ UNCHANGED <<rDelay, rSleeps>>
                     ELSE IF IsLastAttempt(rAttempt, rMaxAttempts)
                     THEN /\ rResult' = Returned("", "operation failed after attempts")
                          /\ rPc' = "returned"
                          /\ UNCHANGED <<rDelay, rSleeps>>
                     ELSE /\ \E rnd \in RandValues :
                                rDelay' = calculateDelay(rCfg, rAttempt, rnd)
                          /\ rSleeps' = rSleeps + 1
                          /\ rPc' = "backoff"
                          /\ UNCHANGED rResult
    /\ UNCHANGED <<rCfg, rMaxAttempts, rCtxDone, rAttempt,
                   repoVars, dAws, dTf, dPc, dResult, callVars, detectVars,
                   poolVars>>

\* select { case <-time.After(delay): }; attempt++
DoBackoffElapsed ==
    /\ rPc = "backoff"
    /\ rAttempt' = rAttempt + 1
    /\ rDelay' = 0
    /\ rPc' = "loop"
    /\ UNCHANGED <<rCfg, rMaxAttempts, rCtxDone, rLastErr, rResult, rCalls, rSleeps,
                   repoVars, dAws, dTf, dPc, dResult, callVars, detectVars,
                   poolVars>>

\* select { case <-ctx.Done(): return zero, wrapped ctx.Err() }
DoBackoffCanceled ==
    /\ rPc = "backoff"
    /\ rCtxDone
    /\ rResult' = Returned("", "context canceled during retry backoff")
    /\ rDelay' = 0
    /\ rPc' = "returned"
    /\ UNCHANGED <<rCfg, rMaxAttempts, rCtxDone, rAttempt, rLastErr, rCalls, rSleeps,
                   repoVars, dAws, dTf, dPc, dResult, callVars, detectVars,
                   poolVars>>

\* The caller's context is cancelled while Do runs.
DoCancel ==
    /\ ~rCtxDone
    /\ rPc \notin {"off", "returned"}
    /\ rCtxDone' = TRUE
    /\ UNCHANGED <<rCfg, rMaxAttempts, rAttempt, rLastErr, rDelay, rPc, rResult,
                   rCalls, rSleeps,
                   repoVars, dAws, dTf, dPc, dResult, callVars, detectVars,
                   poolVars>>

RetryNext ==
    \/ DoCall
    \/ DoCheck
    \/ DoOperation
    \/ DoBackoffElapsed
    \/ DoBackoffCanceled
    \/ DoCancel

SpecRetry == RetryInit /\ [][RetryNext]_vars

----------------------------------------------------------------------------
\* terraform.Repository.  Maps are objects on a heap; clients hold the maps
\* GetAll returned to them and add or delete keys in them.

\* The callers of the repository.
Clients == {"c1", "c2"}

\* The instance ids callers look up and put into the maps they hold.
RepoIds == {"i-1", "i-2"}

\* The instance ids a state file can hold.
FileIds == {"i-1"}

\* What parser.ParseFile finds in the file: an error, or the ids of a map.
ParseOutcomes == { [ok |-> FALSE, keys |-> {}] } \cup
                 { [ok |-> TRUE, keys |-> K] : K \in SUBSET FileIds }

\* make(map...): the heap with a new map of the given keys at the next address.
Alloc(h, keys) == Append(h, keys)

\* len(r.instances), the keys of a nil map being none.
KeysAt(h, a) == IF a = 0 THEN {} ELSE h[a]

\* The state after r.Refresh(ctx) with the given outcome of the parser:
\* r.instances is the parser's map itself.
Refreshed(h, inst, loaded, out) ==
    IF out.ok
    THEN [heap |-> Alloc(h, out.keys), instances |-> Len(h) + 1,
          loaded |-> TRUE, ok |-> TRUE]
    ELSE [heap |-> h, instances |-> inst, loaded |-> loaded, ok |-> FALSE]

\* The state after r.ensureLoaded(ctx), seen being the value of r.loaded it
\* read under the read lock; parsed tells whether the parser ran.
EnsureLoaded(h, inst, loaded, seen, out) ==
    IF seen
    THEN [heap |-> h, instances |-> inst, loaded |-> loaded, ok |-> TRUE,
          parsed |-> FALSE]
    ELSE [parsed |-> TRUE] @@ Refreshed(h, inst, loaded, out)

\* A GetAll that hands out r.instances itself.
CopyOfInstances_Alias(h, inst) == [heap |-> h, result |-> inst]

\* result := make(map, len(r.instances)); for k, v := range r.instances {...}
CopyOfInstances(h, inst) ==
    [heap |-> Alloc(h, KeysAt(h, inst)), result |-> Len(h) + 1]

RepoInit ==
    /\ heap = << >>
    /\ repoInstances = 0
    /\ repoLoaded = FALSE
    /\ held = [c \in Clients |-> 0]
    /\ clientPc = [c \in Clients |-> "idle"]
    /\ parseCalls = 0
    /\ repoOp = [op |-> "NewRepository"]
    /\ attributes = DefaultAttributes
    /\ InitRetryOff
    /\ InitCallsOff
    /\ InitDetectCallOff
    /\ InitDetectOff
    /\ InitPool

\* result, err := repo.GetAll(ctx), called by client c: ensureLoaded reads
\* r.loaded under the read lock and releases the lock.
GetAllBegin(c) ==
    /\ clientPc[c] = "idle"
    /\ Len(heap) + 2 <= MaxMaps
    /\ repoLoaded \/ parseCalls < MaxMaps
    /\ clientPc' = [clientPc EXCEPT ![c] = IF repoLoaded THEN "loaded"
                                          ELSE "unloaded"]
    /\ repoOp' = [op |-> "GetAllBegin", by |-> c]
    /\ UNCHANGED <<heap, repoInstances, repoLoaded, held, parseCalls,
                   retryVars, dAws, dTf, dPc, dResult, callVars, detectVars,
                   poolVars>>

\* The rest of GetAll: Refresh unless r.loaded was seen set, then the copy.
GetAllFinish(c) ==
    /\ clientPc[c] # "idle"
    /\ Len(heap) + 2 <= MaxMaps
    /\ clientPc[c] = "loaded" \/ parseCalls < MaxMaps
    /\ \E out \in ParseOutcomes :
          LET st == EnsureLoaded(heap, repoInstances, repoLoaded,
                                 clientPc[c] = "loaded", out)
              cp == CopyOfInstances(st.heap, st.instances)
          IN  /\ repoInstances' = st.instances
              /\ repoLoaded' = st.loaded
              /\ parseCalls' = IF st.parsed THEN parseCalls + 1 ELSE parseCalls
              /\ IF st.ok
                 THEN /\ heap' = cp.heap
                      /\ held' = [held EXCEPT ![c] = cp.result]
                      /\ repoOp' = [op |-> "GetAll", by |-> c, err |-> FALSE,
                                    began |-> clientPc[c]]
                 ELSE /\ heap' = st.heap
                      /\ held' = [held EXCEPT ![c] = 0]
                      /\ repoOp' = [op |-> "GetAll", by |-> c, err |-> TRUE,
                                    began |-> clientPc[c]]
    /\ clientPc' = [clientPc EXCEPT ![c] = "idle"]
    /\ UNCHANGED <<retryVars, dAws, dTf, dPc, dResult, callVars, detectVars,
                   poolVars>>

\* inst, err := repo.GetByID(ctx, id)
GetByID(id) ==
    /\ Len(heap) + 1 <= MaxMaps
    /\ repoLoaded \/ parseCalls < MaxMaps
    /\ IF id = ""
       THEN /\ repoOp' = [op |-> "GetByID", id |-> id, err |-> "invalid id"]
            /\ UNCHANGED <<heap, repoInstances, repoLoaded, parseCalls>>
       ELSE \E out \in ParseOutcomes :
             LET st == EnsureLoaded(heap, repoInstances, repoLoaded,
                                    repoLoaded, out)
             IN  /\ heap' = st.heap
                 /\ repoInstances' = st.instances
                 /\ repoLoaded' = st.loaded
                 /\ parseCalls' = IF st.parsed THEN parseCalls + 1 ELSE parseCalls
                 /\ repoOp' = [op |-> "GetByID", id |-> id,
                               err |-> IF ~st.ok THEN "parse error"
                                       ELSE IF id \in KeysAt(st.heap, st.instances)
                                       THEN "nil" ELSE "not found"]
    /\ UNCHANGED <<held, clientPc, retryVars, dAws, dTf, dPc, dResult, callVars, detectVars,
                   poolVars>>

\* err := repo.Refresh(ctx)
Refresh ==
    /\ Len(heap) + 1 <= MaxMaps
    /\ parseCalls < MaxMaps
    /\ \E out \in ParseOutcomes :
          LET st == Refreshed(heap, repoInstances, repoLoaded, out)
          IN  /\ heap' = st.heap
              /\ repoInstances' = st.instances
              /\ repoLoaded' = st.loaded
              /\ repoOp' = [op |-> "Refresh", err |-> ~st.ok]
    /\ parseCalls' = parseCalls + 1
    /\ UNCHANGED <<held, clientPc, retryVars, dAws, dTf, dPc, dResult, callVars, detectVars,
                   poolVars>>

\* delete(result, id) by the client that holds result
ClientDelete(c, id) ==
    /\ held[c] # 0
    /\ id \in heap[held[c]]
    /\ heap' = [heap EXCEPT ![held[c]] = @ \ {id}]
    /\ repoOp' = [op |-> "delete", by |-> c]
    /\ UNCHANGED <<repoInstances, repoLoaded, held, clientPc, parseCalls,
                   retryVars, dAws, dTf, dPc, dResult, callVars, detectVars,
                   poolVars>>

\* result[id] = inst by the client that holds result
ClientAdd(c, id) ==
    /\ held[c] # 0
    /\ id \notin heap[held[c]]
    /\ heap' = [heap EXCEPT ![held[c]] = @ \cup {id}]
    /\ repoOp' = [op |-> "add", by |-> c]
    /\ UNCHANGED <<repoInstances, repoLoaded, held, clientPc, parseCalls,
                   retryVars, dAws, dTf, dPc, dResult, callVars, detectVars,
                   poolVars>>

RepoNext ==
    \/ \E c \in Clients : GetAllBegin(c)
    \/ \E c \in Clients : GetAllFinish(c)
    \/ \E id \in RepoIds \cup {""} : GetByID(id)
    \/ Refresh
    \/ \E c \in Clients : \E id \in RepoIds : ClientDelete(c, id)
    \/ \E c \in Clients : \E id \in RepoIds : ClientAdd(c, id)

SpecRepo == RepoInit /\ [][RepoNext]_vars

----------------------------------------------------------------------------
\* worker.Pool and worker.Run.  Two callers run jobs on the same Pool.

\* The concurrent callers of Run.
RunIds == {"r1", "r2"}

NewPool(concurrency) ==
    [concurrency |-> IF concurrency <= 0 THEN NumCPU ELSE concurrency,
     sem |-> 0]

\* A semaphore with one slot too many.
SemCap_OffByOne(p) == p.concurrency + 1

\* cap(pool.sem)
SemCap(p) == p.concurrency

\* The jobs of the tests: job number n has Input n; every second one fails.
Job(n) == [Input |-> n, Fails |-> n % 2 = 0]

\* j.Execute(ctx, j.Input): (value, err)
Execute(j) ==
    IF j.Fails THEN [Value |-> 0, Err |-> "job error"]
    ELSE [Value |-> j.Input * 2, Err |-> "nil"]

\* Result[R]{Value, Err, Index}
Result(value, err, idx) == [Value |-> value, Err |-> err, Index |-> idx]

ZeroResult == Result(0, "nil", 0)

\* Result[R]{Err: ctx.Err(), Index: idx}
CtxErrResult(idx) == Result(0, "context canceled", idx)

\* A store that fills the results from the back.
SetResult_Reversed(rs, idx, r) == [rs EXCEPT ![Len(rs) - idx] = r]

\* results[idx] = r, with Go's 0-based idx
SetResult(rs, idx, r) == [rs EXCEPT ![idx + 1] = r]

\* The indices of the jobs of run r.
JobIdx(r) == 0 .. Len(jobs[r]) - 1

PoolInit ==
    /\ \E c \in 0..MaxPoolConcurrency : pool = NewPool(c)
    /\ \E n \in [RunIds -> 0..MaxJobs] :
          /\ n["r1"] + n["r2"] <= MaxJobs
          /\ jobs = [r \in RunIds |-> [i \in 1..n[r] |-> Job(i)]]
    /\ runCtxDone \in [RunIds -> BOOLEAN]
    /\ jobPc = [r \in RunIds |-> [i \in 1..Len(jobs[r]) |-> "idle"]]
    /\ runResults = [r \in RunIds |-> << >>]
    /\ runWg = [r \in RunIds |-> 0]
    /\ runPc = [r \in RunIds |-> "call"]
    /\ attributes = DefaultAttributes
    /\ InitDetectOff
    /\ InitSingle

\* Run is entered: nil for no jobs, else results := make([]Result[R], len(jobs)).
RunCall(r) ==
    /\ runPc[r] = "call"
    /\ IF Len(jobs[r]) = 0
       THEN /\ runPc' = [runPc EXCEPT ![r] = "returned"]
            /\ UNCHANGED runResults
       ELSE /\ runPc' = [runPc EXCEPT ![r] = "spawn"]
            /\ runResults' = [runResults EXCEPT ![r] = [i \in 1..Len(jobs[r]) |-> ZeroResult]]
    /\ UNCHANGED <<detectVars, singleVars, pool, jobs, runCtxDone, jobPc, runWg>>

\* for i, job := range jobs { wg.Add(1); go func(idx, j) {...}(i, job) }
RunSpawn(r, idx) ==
    /\ runPc[r] = "spawn"
    /\ idx \in JobIdx(r)
    /\ jobPc[r][idx + 1] = "idle"
    /\ \A k \in JobIdx(r) : k < idx => jobPc[r][k + 1] # "idle"
    /\ runWg' = [runWg EXCEPT ![r] = @ + 1]
    /\ jobPc' = [jobPc EXCEPT ![r][idx + 1] = "acquire"]
    /\ runPc' = [runPc EXCEPT ![r] = IF idx = Len(jobs[r]) - 1 THEN "wait" ELSE "spawn"]
    /\ UNCHANGED <<detectVars, singleVars, pool, jobs, runCtxDone, runResults>>

\* select { case pool.sem <- struct{}{}: defer release ... }
JobAcquire(r, idx) ==
    /\ jobPc[r][idx + 1] = "acquire"
    /\ pool.sem < SemCap(pool)
    /\ pool' = [pool EXCEPT !.sem = @ + 1]
    /\ jobPc' = [jobPc EXCEPT ![r][idx + 1] = "check"]
    /\ UNCHANGED <<detectVars, singleVars, jobs, runCtxDone, runResults, runWg, runPc>>

\* select { ... case <-ctx.Done(): results[idx] = ctx error; return }
JobAbandon(r, idx) ==
    /\ jobPc[r][idx + 1] = "acquire"
    /\ runCtxDone[r]
    /\ runResults' = [runResults EXCEPT ![r] = SetResult(@, idx, CtxErrResult(idx))]
    /\ jobPc' = [jobPc EXCEPT ![r][idx + 1] = "wgdone"]
    /\ UNCHANGED <<detectVars, singleVars, pool, jobs, runCtxDone, runWg, runPc>>

\* A job that executes without looking at the context again.
JobCheck_NoCheck(r, idx) ==
    /\ jobPc[r][idx + 1] = "check"
    /\ jobPc' = [jobPc EXCEPT ![r][idx + 1] = "exec"]
    /\ UNCHANGED <<detectVars, singleVars, pool, jobs, runCtxDone, runResults,
                   runWg, runPc>>

\* The check of the context after the semaphore is acquired.
JobCheck(r, idx) ==
    /\ jobPc[r][idx + 1] = "check"
    /\ IF runCtxDone[r]
       THEN /\ runResults' = [runResults EXCEPT ![r] = SetResult(@, idx, CtxErrResult(idx))]
            /\ jobPc' = [jobPc EXCEPT ![r][idx + 1] = "release"]
       ELSE /\ jobPc' = [jobPc EXCEPT ![r][idx + 1] = "exec"]
            /\ UNCHANGED runResults
    /\ UNCHANGED <<detectVars, singleVars, pool, jobs, runCtxDone, runWg, runPc>>

\* value, err := j.Execute(ctx, j.Input); results[idx] = Result{value, err, idx}
JobExecute(r, idx) ==
    /\ jobPc[r][idx + 1] = "exec"
    /\ LET out == Execute(jobs[r][idx + 1])
       IN  runResults' = [runResults EXCEPT
                             ![r] = SetResult(@, idx, Result(out.Value, out.Err, idx))]
    /\ jobPc' = [jobPc EXCEPT ![r][idx + 1] = "release"]
    /\ UNCHANGED <<detectVars, singleVars, pool, jobs, runCtxDone, runWg, runPc>>

\* A release that is skipped when the job was cancelled after acquisition.
JobRelease_NotWhenCanceled(r, idx) ==
    /\ jobPc[r][idx + 1] = "release"
    /\ pool.sem > 0
    /\ pool' = [pool EXCEPT !.sem = IF runResults[r][idx + 1] = CtxErrResult(idx)
                                    THEN @ ELSE @ - 1]
    /\ jobPc' = [jobPc EXCEPT ![r][idx + 1] = "wgdone"]
    /\ UNCHANGED <<detectVars, singleVars, jobs, runCtxDone, runResults, runWg, runPc>>

\* defer func() { <-pool.sem }()
JobRelease(r, idx) ==
    /\ jobPc[r][idx + 1] = "release"
    /\ pool.sem > 0
    /\ pool' = [pool EXCEPT !.sem = @ - 1]
    /\ jobPc' = [jobPc EXCEPT ![r][idx + 1] = "wgdone"]
    /\ UNCHANGED <<detectVars, singleVars, jobs, runCtxDone, runResults, runWg, runPc>>

\* defer wg.Done()
JobWgDone(r, idx) ==
    /\ jobPc[r][idx + 1] = "wgdone"
    /\ runWg' = [runWg EXCEPT ![r] = @ - 1]
    /\ jobPc' = [jobPc EXCEPT ![r][idx + 1] = "done"]
    /\ UNCHANGED <<detectVars, singleVars, pool, jobs, runCtxDone, runResults, runPc>>

\* wg.Wait() returns; return results
RunReturn(r) ==
    /\ runPc[r] = "wait"
    /\ runWg[r] = 0
    /\ runPc' = [runPc EXCEPT ![r] = "returned"]
    /\ UNCHANGED <<detectVars, singleVars, pool, jobs, runCtxDone, jobPc, runResults, runWg>>

\* The context of run r is cancelled while Run is in progress.
RunCancel(r) ==
    /\ ~runCtxDone[r]
    /\ runPc[r] # "returned"
    /\ runCtxDone' = [runCtxDone EXCEPT ![r] = TRUE]
    /\ UNCHANGED <<detectVars, singleVars, pool, jobs, jobPc, runResults, runWg, runPc>>

PoolNext ==
    \/ \E r \in RunIds : RunCall(r)
    \/ \E r \in RunIds : \E idx \in JobIdx(r) : RunSpawn(r, idx)
    \/ \E r \in RunIds : \E idx \in JobIdx(r) : JobAcquire(r, idx)
    \/ \E r \in RunIds : \E idx \in JobIdx(r) : JobAbandon(r, idx)
    \/ \E r \in RunIds : \E idx \in JobIdx(r) : JobCheck(r, idx)
    \/ \E r \in RunIds : \E idx \in JobIdx(r) : JobExecute(r, idx)
    \/ \E r \in RunIds : \E idx \in JobIdx(r) : JobRelease(r, idx)
    \/ \E r \in RunIds : \E idx \in JobIdx(r) : JobWgDone(r, idx)
    \/ \E r \in RunIds : RunReturn(r)
    \/ \E r \in RunIds : RunCancel(r)

SpecPool == PoolInit /\ [][PoolNext]_vars

\* The steps of Run and of its job goroutines: every step but the callers'
\* cancellations.  Execute returns: JobExecute is one step.
PoolProgress ==
    \/ \E r \in RunIds : RunCall(r)
    \/ \E r \in RunIds : \E idx \in JobIdx(r) : RunSpawn(r, idx)
    \/ \E r \in RunIds : \E idx \in JobIdx(r) : JobAcquire(r, idx)
    \/ \E r \in RunIds : \E idx \in JobIdx(r) : JobAbandon(r, idx)
    \/ \E r \in RunIds : \E idx \in JobIdx(r) : JobCheck(r, idx)
    \/ \E r \in RunIds : \E idx \in JobIdx(r) : JobExecute(r, idx)
    \/ \E r \in RunIds : \E idx \in JobIdx(r) : JobRelease(r, idx)
    \/ \E r \in RunIds : \E idx \in JobIdx(r) : JobWgDone(r, idx)
    \/ \E r \in RunIds : RunReturn(r)

\* The Go scheduler keeps running some goroutine while one can run; a caller
\* may cancel at any time or never.
FairSpecPool == PoolInit /\ [][PoolNext]_vars /\ WF_vars(PoolProgress)

----------------------------------------------------------------------------
\* Properties of DetectMultiple.

\* DetectMultiple has returned its report.
Done == mainPc = "done"

AwsIds == DOMAIN awsInstances

\* The positions of report.Results that hold a result for id.
PositionsOf(id) == { i \in 1..Len(report.Results) : report.Results[i].InstanceID = id }

\* The results for id that are in the channel or in the report.
Emitted(id) ==
    { results[i] : i \in { k \in 1..Len(results) : results[k].InstanceID = id } }
    \cup { report.Results[i] : i \in PositionsOf(id) }

\* The goroutines of DetectMultiple that have started and not yet returned.
InFlight == { id \in AwsIds : taskPc[id] \in {"select", "lookup", "exit"} }

\* C1: the returned report has len(Results) = TotalInstances = the number of
\* entries of the actual-state map, for every schedule and cancellation time.
C1_ResultCount ==
    Done => /\ Len(report.Results) = report.TotalInstances
            /\ report.TotalInstances = Cardinality(AwsIds)

\* C1 witness: a full report after a cancellation that hit one task only.
C1_Witness ==
    /\ Done
    /\ Cardinality(AwsIds) = MaxInstances
    /\ \E id \in AwsIds : observed[id] = "canceled"
    /\ \E id \in AwsIds : observed[id] = "live"

\* C2: every key of the actual-state map has exactly one result in the report
\* and no result has an identifier that is not a key of the actual-state map.
C2_OneResultPerKey ==
    Done => /\ \A id \in AwsIds : Cardinality(PositionsOf(id)) = 1
            /\ \A i \in 1..Len(report.Results) : report.Results[i].InstanceID \in AwsIds

\* C2 witness: a report for inputs where an instance is in the desired state only.
C2_Witness ==
    /\ Done
    /\ AwsIds # {}
    /\ \E id \in DOMAIN tfInstances : id \notin AwsIds

\* The report DetectMultiple must return, given what each task's check saw:
\* one entry per key, ascending by identifier.
RECURSIVE CanonicalFrom(_)
CanonicalFrom(i) ==
    IF i > Len(IdList) THEN << >>
    ELSE IF IdList[i] \notin AwsIds THEN CanonicalFrom(i + 1)
    ELSE << IF observed[IdList[i]] = "canceled" THEN CanceledResult(IdList[i])
            ELSE TaskResult(IdList[i]) >> \o CanonicalFrom(i + 1)

\* C3: the returned Results are ascending by InstanceID and are the same
\* sequence whatever the order in which the tasks completed.
C3_SortedDeterministic ==
    Done => /\ \A i, j \in 1..Len(report.Results) :
                 i < j => StrLess(report.Results[i].InstanceID, report.Results[j].InstanceID)
            /\ report.Results = CanonicalFrom(1)

\* C3 witness: a report whose results arrived in descending order.
C3_Witness ==
    /\ Done
    /\ Len(arrival) = MaxInstances
    /\ \A i \in 1..(Len(arrival) - 1) : StrLess(arrival[i + 1], arrival[i])

\* C4: DriftedInstances is the number of results with HasDrift set, between 0
\* and TotalInstances, at every moment of the collection and in the report.
C4_DriftedCount ==
    /\ report.DriftedInstances =
          Cardinality({ i \in 1..Len(report.Results) : report.Results[i].HasDrift })
    /\ 0 <= report.DriftedInstances
    /\ report.DriftedInstances <= report.TotalInstances

\* C4 witness: a report with drifted and undrifted instances.
C4_Witness ==
    /\ Done
    /\ report.DriftedInstances >= 1
    /\ report.DriftedInstances < report.TotalInstances

\* C5: the number of per-instance tasks in flight never exceeds the
\* configured concurrency cap.
C5_CapRespected == Cardinality(InFlight) <= Concurrency

\* C7: without cancellation, an identifier missing from the desired state
\* yields a drifted "not found" result without drifted attributes, which is
\* counted in DriftedInstances.
C7_NotFoundIsDrift ==
    (Done /\ ~ctxDone) =>
        /\ \A id \in AwsIds \ DOMAIN tfInstances :
              \E i \in 1..Len(report.Results) :
                 /\ report.Results[i].InstanceID = id
                 /\ report.Results[i].HasDrift
                 /\ report.Results[i].Error = "instance not found in Terraform state"
                 /\ report.Results[i].DriftedAttrs = << >>
        /\ report.DriftedInstances =
              Cardinality({ id \in AwsIds :
                               \/ id \notin DOMAIN tfInstances
                               \/ Detect(attributes, awsInstances[id], tfInstances[id]).HasDrift })

\* C7 witness: an uncancelled report with a missing and a present instance.
C7_Witness ==
    /\ Done
    /\ ~ctxDone
    /\ \E id \in AwsIds : id \notin DOMAIN tfInstances
    /\ \E id \in AwsIds : id \in DOMAIN tfInstances

\* C8: with the context cancelled before the call, every identifier yields a
\* canceled result without drift, no task looks up the desired state, and
\* DriftedInstances is 0.
C8_CanceledBeforeCall ==
    (Done /\ cancelledAtEntry) =>
        /\ \A id \in AwsIds :
              /\ observed[id] = "canceled"
              /\ \E i \in 1..Len(report.Results) :
                    report.Results[i] =
                       [InstanceID |-> id, HasDrift |-> FALSE, DriftedAttrs |-> << >>,
                        Error |-> "context canceled"]
        /\ report.DriftedInstances = 0

\* C8 witness: a report of a call cancelled beforehand, with an instance
\* missing from the desired state and one that differs from it.
C8_Witness ==
    /\ Done
    /\ cancelledAtEntry
    /\ \E id \in AwsIds : id \notin DOMAIN tfInstances
    /\ \E id \in AwsIds :
          /\ id \in DOMAIN tfInstances
          /\ awsInstances[id].InstanceType # tfInstances[id].InstanceType

\* C9: a result once emitted stays as it is up to the report, and a newly
\* emitted result is a canceled entry only for a task whose cancellation
\* check saw the context cancelled; a task that passed its check emits its
\* comparison result, also when the context is cancelled afterwards.
C9_EmittedResultsKept ==
    [][ \A id \in AwsIds :
           /\ Emitted(id) \subseteq Emitted(id)'
           /\ \A r \in Emitted(id)' \ Emitted(id) :
                 r = IF observed'[id] = "live" THEN TaskResult(id)
                     ELSE CanceledResult(id) ]_vars

\* C9 witness: a report of a call cancelled while it ran, with a canceled
\* entry and a comparison result.
C9_Witness ==
    /\ Done
    /\ ctxDone
    /\ ~cancelledAtEntry
    /\ \E id \in AwsIds : observed[id] = "live" /\ TaskResult(id) \in Emitted(id)
    /\ \E id \in AwsIds : observed[id] = "canceled"

----------------------------------------------------------------------------
\* Properties of worker.Run.

\* The jobs that hold a slot of the pool.
Holders ==
    { p \in RunIds \X (0..MaxJobs) :
         /\ p[2] \in JobIdx(p[1])
         /\ jobPc[p[1]][p[2] + 1] \in {"check", "exec", "release"} }

\* C6: at most pool.concurrency jobs are between acquiring and releasing a
\* slot, also when two Run calls share the pool.
C6_PoolBound == Cardinality(Holders) <= pool.concurrency

\* C6 witness: the pool is full with jobs of both callers executing, and a
\* further job waits for a slot.
C6_Witness ==
    /\ Cardinality(Holders) = pool.concurrency
    /\ \A r \in RunIds : \E idx \in JobIdx(r) : jobPc[r][idx + 1] = "exec"
    /\ \E r \in RunIds : \E idx \in JobIdx(r) : jobPc[r][idx + 1] = "acquire"

----------------------------------------------------------------------------
\* Properties of Detect.

\* Both sides have equal values at every configured path that resolves.
EqualAtEveryPath ==
    \A i \in 1..Len(attributes) :
       LET vals == getAttributeValues(dAws, dTf, attributes[i])
       IN  vals.ok => valuesEqual(vals.aws, vals.tf)

\* C10: for records that are equal at every configured path, Detect returns
\* HasDrift = FALSE and no drifted attributes.
C10_EqualMeansNoDrift ==
    (dPc = "returned" /\ EqualAtEveryPath) =>
        /\ ~dResult.HasDrift
        /\ dResult.DriftedAttrs = << >>

\* C10 witness: Detect returned for two records that differ only in the order
\* of their security groups, under a list with paths that do not resolve.
C10_Witness ==
    /\ dPc = "returned"
    /\ EqualAtEveryPath
    /\ dAws.SecurityGroups # dTf.SecurityGroups
    /\ \E i \in 1..Len(attributes) : ~getAttributeValues(dAws, dTf, attributes[i]).ok

----------------------------------------------------------------------------
\* Reference notions of equal values, stated without the code's helpers.

\* The number of occurrences of x in the sequence s.
Count(s, x) == Cardinality({ i \in 1..Len(s) : s[i] = x })

\* Two string lists hold the same elements with the same multiplicities.
SameMultiset(s, t) ==
    \A x \in { s[i] : i \in 1..Len(s) } \cup { t[i] : i \in 1..Len(t) } :
       Count(s, x) = Count(t, x)

\* Two string maps have the same keys and the same value under every key.
SameEntries(f, g) ==
    /\ DOMAIN f = DOMAIN g
    /\ \A k \in DOMAIN f : f[k] = g[k]

\* Two values are the same: lists as multisets, maps by their entries, any
\* other value by type and contents.
SameValue(a, b) ==
    IF a.kind = "[]string" /\ b.kind = "[]string"
    THEN SameMultiset(a.v.elems, b.v.elems)
    ELSE IF a.kind = "map[string]string" /\ b.kind = "map[string]string"
    THEN SameEntries(a.v.m, b.v.m)
    ELSE a.kind = b.kind /\ a = b

\* The values of both records at the i-th configured path.
ValuesAt(i) == getAttributeValues(dAws, dTf, attributes[i])

\* The positions of the configured paths at which the two records differ.
DifferingPaths ==
    { i \in 1..Len(attributes) :
         ValuesAt(i).ok /\ ~SameValue(ValuesAt(i).aws, ValuesAt(i).tf) }

\* C11: for records that differ at exactly k configured paths, Detect returns
\* exactly k drifted attributes (and HasDrift when k >= 1), each naming a
\* differing path with the value of each side; HasDrift is TRUE exactly when
\* DriftedAttrs is not empty.
C11_OneEntryPerDifferingPath ==
    dPc = "returned" =>
        /\ Len(dResult.DriftedAttrs) = Cardinality(DifferingPaths)
        /\ (DifferingPaths # {} => dResult.HasDrift)
        /\ \A j \in 1..Len(dResult.DriftedAttrs) :
              \E i \in DifferingPaths :
                 dResult.DriftedAttrs[j] =
                    DriftedAttr(attributes[i], ValuesAt(i).aws, ValuesAt(i).tf)
        /\ (dResult.HasDrift <=> dResult.DriftedAttrs # << >>)

\* The paths of the drifted attributes of a result, in their order.
DriftedPaths(result) ==
    [j \in 1..Len(result.DriftedAttrs) |-> result.DriftedAttrs[j].Path]

\* s can be obtained from t by deleting elements.
RECURSIVE IsSubsequence(_, _)
IsSubsequence(s, t) ==
    IF s = << >> THEN TRUE
    ELSE IF t = << >> THEN FALSE
    ELSE IF Head(s) = Head(t) THEN IsSubsequence(Tail(s), Tail(t))
    ELSE IsSubsequence(s, Tail(t))

\* C12: the paths of DriftedAttrs appear in the same relative order as in the
\* detector's attribute list: they are a subsequence of it.
C12_DriftedInListOrder ==
    dPc = "returned" => IsSubsequence(DriftedPaths(dResult), attributes)

\* C12 witness: Detect returned at least two drifted attributes that are not
\* neighbours in the attribute list, and the first configured path is not
\* among them.
C12_Witness ==
    /\ dPc = "returned"
    /\ Len(dResult.DriftedAttrs) >= 2
    /\ dResult.DriftedAttrs[1].Path # attributes[1]
    /\ \E i \in 1..Len(attributes) - 2 :
          /\ dResult.DriftedAttrs[1].Path = attributes[i]
          /\ dResult.DriftedAttrs[2].Path # attributes[i + 1]

\* The sub-fields of root_block_device that can be extracted.
BlockDeviceFields ==
    {"volume_size", "volume_type", "delete_on_termination", "encrypted",
     "iops", "throughput"}

\* The attribute string is empty.
IsEmptyAttr(attr) == attr = << >>

\* The first segment of the attribute is no known attribute.
HasUnknownHead(attr) ==
    attr # << >> /\ attr[1] \notin FieldNames \cup {"root_block_device"}

\* The attribute names an unknown sub-field of root_block_device.
HasUnknownBlockField(attr) ==
    /\ Len(attr) >= 3
    /\ attr[1] = "root_block_device"
    /\ attr[2] = "."
    /\ attr[3] \notin BlockDeviceFields

\* The attribute cannot be extracted.
Unextractable(attr) ==
    IsEmptyAttr(attr) \/ HasUnknownHead(attr) \/ HasUnknownBlockField(attr)

\* The configured attributes without those that cannot be extracted.
ExtractableAttrs == SelectSeq(attributes, LAMBDA attr : ~Unextractable(attr))

\* C13: Detect skips every configured path that cannot be extracted, without
\* an error and without a drift entry for it, and evaluates all the others:
\* its result is the result of Detect with those paths removed from the list.
C13_UnextractableSkipped ==
    dPc = "returned" =>
        /\ dResult = Detect(ExtractableAttrs, dAws, dTf)
        /\ dResult.Error = ""
        /\ \A j \in 1..Len(dResult.DriftedAttrs) :
              ~Unextractable(dResult.DriftedAttrs[j].Path)

\* C13 witness: the list holds an empty path, a path with an unknown first
\* segment and an unknown sub-field of root_block_device, and Detect returned
\* drift for a path before them and for a path after them.
C13_Witness ==
    /\ dPc = "returned"
    /\ \E i \in 1..Len(attributes) : IsEmptyAttr(attributes[i])
    /\ \E i \in 1..Len(attributes) : HasUnknownHead(attributes[i])
    /\ \E i \in 1..Len(attributes) : HasUnknownBlockField(attributes[i])
    /\ \E i, j, k \in 1..Len(attributes) :
          /\ i < j /\ j < k
          /\ Unextractable(attributes[j])
          /\ \E m, n \in 1..Len(dResult.DriftedAttrs) :
                /\ dResult.DriftedAttrs[m].Path = attributes[i]
                /\ dResult.DriftedAttrs[n].Path = attributes[k]

----------------------------------------------------------------------------
\* Properties of valuesEqual.

\* Both arguments are string lists.
BothStringLists == eqA.kind = "[]string" /\ eqB.kind = "[]string"

\* C14: on two string lists valuesEqual returns TRUE exactly when they hold
\* the same elements with the same multiplicities, whatever their order.
C14_ListsEqualAsMultisets ==
    (eqPc = "returned" /\ BothStringLists) =>
        (eqResult <=> SameMultiset(eqA.v.elems, eqB.v.elems))

\* C14 witness: valuesEqual returned TRUE for two lists of MaxListLen elements
\* in different orders, with an element that occurs twice.
C14_Witness ==
    /\ eqPc = "returned"
    /\ BothStringLists
    /\ Len(eqA.v.elems) = MaxListLen
    /\ eqA.v.elems # eqB.v.elems
    /\ \E x \in {"sg-a", "sg-b"} : Count(eqA.v.elems, x) >= 2
    /\ \E x \in {"sg-a", "sg-b"} : Count(eqA.v.elems, x) = 1
    /\ eqResult

\* Both arguments are string maps.
BothStringMaps ==
    eqA.kind = "map[string]string" /\ eqB.kind = "map[string]string"

\* C15: on two string maps valuesEqual returns TRUE exactly when they have
\* the same keys and the same value under every key; maps with different keys
\* are unequal whatever their values, the empty string included.
C15_MapsEqualByEntries ==
    (eqPc = "returned" /\ BothStringMaps) =>
        (eqResult <=> SameEntries(eqA.v.m, eqB.v.m))

\* C16: valuesEqual returns TRUE when both values are nil, FALSE when exactly
\* one is nil, and FALSE whenever the two values have different types.
C16_NilAndTypeMismatch ==
    eqPc = "returned" =>
        /\ (eqA = NilVal /\ eqB = NilVal) => eqResult
        /\ ((eqA = NilVal) # (eqB = NilVal)) => ~eqResult
        /\ eqA.kind # eqB.kind => ~eqResult

\* C16 witness: valuesEqual returned FALSE for an empty string list against
\* an empty list of another element type.
C16_Witness ==
    /\ eqPc = "returned"
    /\ eqA = SliceVal(Slice(<< >>))
    /\ eqB = IntSliceVal(Slice(<< >>))
    /\ ~eqResult

----------------------------------------------------------------------------
\* Properties of extractValue.

\* The first segments extractValue knows.
RecognizedHeads == FieldNames \cup {"root_block_device"}

\* The paths that name a field of the record, a tag or a sub-field of the
\* root block device.
IsRecognizedPath(path) ==
    \/ Len(path) = 1 /\ path[1] \in RecognizedHeads
    \/ Len(path) = 2 /\ path[1] = "tags"
    \/ Len(path) = 2 /\ path[1] = "root_block_device"
                     /\ path[2] \in BlockDeviceFields

\* The value of the tag, or the empty string when the record has no such tag.
TagOrEmpty(instance, key) ==
    IF ~instance.Tags.isNil /\ key \in DOMAIN instance.Tags.m
    THEN instance.Tags.m[key]
    ELSE ""

\* The record's current value at a recognized path.
CurrentValue(instance, path) ==
    LET bd == instance.RootBlockDevice
    IN  IF Len(path) = 2 /\ path[1] = "tags"
        THEN [kind |-> "string", v |-> TagOrEmpty(instance, path[2])]
        ELSE IF Len(path) = 2
        THEN CASE path[2] = "volume_size" -> [kind |-> "int", v |-> bd.VolumeSize]
               [] path[2] = "volume_type" -> [kind |-> "string", v |-> bd.VolumeType]
               [] path[2] = "delete_on_termination" ->
                     [kind |-> "bool", v |-> bd.DeleteOnTermination]
               [] path[2] = "encrypted" -> [kind |-> "bool", v |-> bd.Encrypted]
               [] path[2] = "iops" -> [kind |-> "int", v |-> bd.IOPS]
               [] path[2] = "throughput" -> [kind |-> "int", v |-> bd.Throughput]
        ELSE CASE path[1] = "instance_type" ->
                     [kind |-> "string", v |-> instance.InstanceType]
               [] path[1] = "ami" -> [kind |-> "string", v |-> instance.AMI]
               [] path[1] = "availability_zone" ->
                     [kind |-> "string", v |-> instance.AvailabilityZone]
               [] path[1] = "subnet_id" -> [kind |-> "string", v |-> instance.SubnetID]
               [] path[1] = "vpc_id" -> [kind |-> "string", v |-> instance.VpcID]
               [] path[1] = "private_ip" -> [kind |-> "string", v |-> instance.PrivateIP]
               [] path[1] = "public_ip" -> [kind |-> "string", v |-> instance.PublicIP]
               [] path[1] = "key_name" -> [kind |-> "string", v |-> instance.KeyName]
               [] path[1] = "security_groups" ->
                     [kind |-> "[]string", v |-> instance.SecurityGroups]
               [] path[1] = "tags" ->
                     [kind |-> "map[string]string", v |-> instance.Tags]
               [] path[1] = "ebs_optimized" ->
                     [kind |-> "bool", v |-> instance.EBSOptimized]
               [] path[1] = "monitoring" -> [kind |-> "bool", v |-> instance.Monitoring]
               [] path[1] = "iam_instance_profile" ->
                     [kind |-> "string", v |-> instance.IAMInstanceProfile]
               [] path[1] = "root_block_device" -> [kind |-> "BlockDevice", v |-> bd]

\* The extraction returned an error and no value.
ExtractFailed == ~exResult.ok /\ exResult.val = NilVal /\ exResult.err # ""

\* C17: extractValue fails for the empty path, for a path whose first segment
\* is no recognized name and for an unrecognized sub-field of
\* root_block_device; for a recognized path it returns the record's current
\* value of that field and no error.
C17_ExtractFailsOrReturnsField ==
    exPc = "returned" =>
        /\ exPath = << >> => ExtractFailed
        /\ (exPath # << >> /\ exPath[1] \notin RecognizedHeads) => ExtractFailed
        /\ (Len(exPath) >= 2 /\ exPath[1] = "root_block_device"
              /\ exPath[2] \notin BlockDeviceFields) => ExtractFailed
        /\ IsRecognizedPath(exPath) =>
              exResult = [ok |-> TRUE, val |-> CurrentValue(exInstance, exPath),
                          err |-> ""]

\* C17 witness: extractValue returned the throughput of the root block device
\* of a record whose fields all differ.
C17_Witness ==
    /\ exPc = "returned"
    /\ exInstance = FullInstance
    /\ exPath = <<"root_block_device", "throughput">>
    /\ exResult.ok
    /\ exResult.val = IntVal(FullInstance.RootBlockDevice.Throughput)

----------------------------------------------------------------------------
\* Properties of Detect on tag paths and on its inputs.

\* The configured attribute is "tags.<key>".
IsTagAttr(attr) == Len(attr) = 3 /\ attr[1] = "tags" /\ attr[2] = "."

\* The drifted attributes of the result that name the path.
EntriesFor(attr) ==
    { j \in 1..Len(dResult.DriftedAttrs) : dResult.DriftedAttrs[j].Path = attr }

\* C18: for a configured path tags.<key>, Detect reports drift exactly when
\* the tag values of the two records differ, where a tag that is absent (or a
\* record without tags) counts as the empty string; the entry carries these
\* values.
C18_TagDriftByValueOrEmpty ==
    dPc = "returned" =>
        \A i \in 1..Len(attributes) :
           IsTagAttr(attributes[i]) =>
              LET awsTag == TagOrEmpty(dAws, attributes[i][3])
                  tfTag  == TagOrEmpty(dTf, attributes[i][3])
              IN  /\ (EntriesFor(attributes[i]) # {}) <=> (awsTag # tfTag)
                  /\ \A j \in EntriesFor(attributes[i]) :
                        /\ dResult.DriftedAttrs[j].AWSValue =
                              [kind |-> "string", v |-> awsTag]
                        /\ dResult.DriftedAttrs[j].TerraformValue =
                              [kind |-> "string", v |-> tfTag]

\* C18 witness: Detect returned drift at tags.Name for a record without tags
\* against a record with a Name tag; the entry carries "" for the former.
C18_Witness ==
    /\ dPc = "returned"
    /\ dAws.Tags = NilMap
    /\ dTf.Tags = Map([k \in {"Name"} |-> "web"])
    /\ \E j \in EntriesFor(<<"tags", ".", "Name">>) :
          /\ dResult.DriftedAttrs[j].AWSValue = StrVal("")
          /\ dResult.DriftedAttrs[j].TerraformValue = StrVal("web")

\* C19: a path of more than one segment that extractValue resolves is
\* tags.<key> or root_block_device.<field>; no path with a further segment
\* and no other path with a sub-segment resolves.
C19_OnlyTagAndBlockDeviceSubPaths ==
    (exPc = "returned" /\ exResult.ok /\ Len(exPath) > 1) =>
        /\ Len(exPath) = 2
        /\ exPath[1] \in {"tags", "root_block_device"}

\* The values of the drifted attributes are those of the records.
EntriesCarryRecordValues ==
    \A j \in 1..Len(dResult.DriftedAttrs) :
       LET path == Split(dResult.DriftedAttrs[j].Path)
       IN  /\ dResult.DriftedAttrs[j].AWSValue = extractValue(dAws, path).val
           /\ dResult.DriftedAttrs[j].TerraformValue = extractValue(dTf, path).val

----------------------------------------------------------------------------
\* Properties of worker.Run: results, cancellation and slots.

\* What Execute returns for the job at idx of run r, as a Result.
ExecutedResult(r, idx) ==
    LET out == Execute(jobs[r][idx + 1])
    IN  [Value |-> out.Value, Err |-> out.Err, Index |-> idx]

\* The Result of a cancelled job at idx.
CancelledResult(idx) == [Value |-> 0, Err |-> "context canceled", Index |-> idx]

\* C21: when Run has returned, results has one entry per job, in the order of
\* the jobs: entry i carries Index i and what jobs[i] returned, or the
\* context error if the job was cancelled.
C21_ResultsInJobOrder ==
    \A r \in RunIds :
       runPc[r] = "returned" =>
          /\ Len(runResults[r]) = Len(jobs[r])
          /\ \A idx \in JobIdx(r) :
                /\ runResults[r][idx + 1].Index = idx
                /\ \/ runResults[r][idx + 1] = ExecutedResult(r, idx)
                   \/ /\ runResults[r][idx + 1] = CancelledResult(idx)
                      /\ runCtxDone[r]

\* C21 witness: a Run over MaxJobs jobs returned; its first job was cancelled
\* although a later job, which got its slot earlier, was executed, and one of
\* the executed jobs failed.
C21_Witness ==
    \E r \in RunIds :
       /\ runPc[r] = "returned"
       /\ Len(jobs[r]) = MaxJobs
       /\ runResults[r][1] = CancelledResult(0)
       /\ \E idx \in JobIdx(r) :
             idx > 0 /\ runResults[r][idx + 1] = ExecutedResult(r, idx)
                     /\ runResults[r][idx + 1].Err = "nil"
       /\ \E idx \in JobIdx(r) :
             idx > 0 /\ runResults[r][idx + 1] = ExecutedResult(r, idx)
                     /\ runResults[r][idx + 1].Err = "job error"

\* C22: a job whose context is cancelled before it has passed the check that
\* follows the acquisition never reaches Execute and gets the context error
\* with its index as result; a job that leaves the wait for a slot because of
\* the cancellation takes no slot.
C22_CancelledJobNotExecuted ==
    [][\A r \in RunIds : \A idx \in JobIdx(r) :
          LET pc  == jobPc[r][idx + 1]
              pc2 == jobPc'[r][idx + 1]
          IN  /\ (runCtxDone[r] /\ pc \in {"idle", "acquire", "check"})
                    => pc2 \in {"idle", "acquire", "check", "release", "wgdone"}
              /\ (runCtxDone[r] /\ pc = "check" /\ pc2 # pc)
                    => /\ pc2 = "release"
                       /\ runResults'[r][idx + 1] = CancelledResult(idx)
              /\ (pc = "acquire" /\ pc2 = "wgdone")
                    => /\ runCtxDone[r]
                       /\ pool' = pool
                       /\ runResults'[r][idx + 1] = CancelledResult(idx)
              /\ (pc \in {"release", "wgdone", "done"})
                    => runResults'[r][idx + 1] = runResults[r][idx + 1]
      ]_vars

\* C22 witness: in a cancelled Run one job holds a slot and is about to
\* release it with the context error as result, and another job has left
\* with the context error while the pool is full.
C22_Witness ==
    \E r \in RunIds : \E i, k \in JobIdx(r) :
       /\ runCtxDone[r]
       /\ jobPc[r][i + 1] = "release"
       /\ runResults[r][i + 1] = CancelledResult(i)
       /\ jobPc[r][k + 1] = "wgdone"
       /\ runResults[r][k + 1] = CancelledResult(k)
       /\ pool.sem = pool.concurrency

----------------------------------------------------------------------------
\* Properties of DetectMultiple: writers of the report, termination.

\* The tasks that have a result to send.
Senders == { id \in AwsIds : taskPc[id] \in {"select", "lookup"} }

\* C23: report.Results and report.DriftedInstances are written by one
\* goroutine only, the one that drains the channel: a step that changes the
\* report is a step of the collecting loop and of no task; and a task that
\* is to send its result always finds room in the channel.
C23_SingleWriterNoBlockedSender ==
    /\ [][report' # report =>
             /\ mainPc = "collect"
             /\ taskPc' = taskPc
             /\ closerPc' = closerPc]_vars
    /\ [](Senders # {} => Len(results) < ChanCap)

\* C23 witness: the collecting loop has written a result to the report while
\* a task is still about to send its own.
C23_Witness ==
    /\ mainPc = "collect"
    /\ Len(report.Results) >= 1
    /\ \E id \in AwsIds : taskPc[id] = "lookup"

----------------------------------------------------------------------------
\* Properties of retry.Do.

\* max(1, MaxAttempts) of the caller's configuration.
AttemptLimit == IF rCfg.MaxAttempts < 1 THEN 1 ELSE rCfg.MaxAttempts

\* The error makes Do try again under the caller's configuration.
RetryableFailure(err) ==
    /\ err # "nil"
    /\ rCfg.ShouldRetry = "nil" \/ err # "non-retryable"

\* C24: Do calls the operation at most max(1, MaxAttempts) times, and exactly
\* that often when every call fails with a retryable error and the context
\* is not cancelled; no call follows a successful one, whose value Do returns
\* with a nil error; and Do does not wait after the last attempt.
C24_AttemptsBounded ==
    /\ Len(rCalls) <= AttemptLimit
    /\ \A i \in 1..Len(rCalls) - 1 : rCalls[i] # "nil"
    /\ (rCalls # << >> /\ rCalls[Len(rCalls)] = "nil") =>
          rPc = "returned" /\ rResult = [Value |-> "success", Err |-> "nil"]
    /\ (/\ rPc = "returned"
        /\ ~rCtxDone
        /\ \A i \in 1..Len(rCalls) : RetryableFailure(rCalls[i])) =>
          Len(rCalls) = AttemptLimit
    /\ Len(rCalls) = AttemptLimit => rPc # "backoff"
    /\ rSleeps <= AttemptLimit - 1

\* C24 witness: Do returned after MaxRetryAttempts failed calls without a
\* cancellation, having waited between them only.
C24_Witness ==
    /\ rPc = "returned"
    /\ ~rCtxDone
    /\ rCfg.MaxAttempts = MaxRetryAttempts
    /\ Len(rCalls) = MaxRetryAttempts
    /\ \A i \in 1..Len(rCalls) : RetryableFailure(rCalls[i])
    /\ rSleeps = MaxRetryAttempts - 1
    /\ rResult.Err = "operation failed after attempts"

\* C25: the delay Do waits between two attempts is never negative and never
\* longer than the configured MaxDelay.
C25_DelayWithinMaxDelay ==
    rPc = "backoff" => (0 <= rDelay /\ rDelay <= rCfg.MaxDelay)


\* C26: GetAll returns a copy of the cached map.  When a client adds or
\* deletes a key in the map GetAll returned to it, the keys of the repository's
\* cached instances (what InstanceCount and GetByID read) stay the same and so
\* do the keys of the map any other client got from GetAll; and a GetAll or
\* GetByID call that begins when the repository is loaded does not call the
\* parser (only Refresh does), the repository staying loaded once it is.
C26_GetAllReturnsCopy ==
    [][ /\ repoOp'.op \in {"delete", "add"} =>
             /\ KeysAt(heap', repoInstances') = KeysAt(heap, repoInstances)
             /\ \A d \in Clients \ {repoOp'.by} :
                    KeysAt(heap', held'[d]) = KeysAt(heap, held[d])
        /\ (repoOp'.op = "GetAll" /\ repoOp'.began = "loaded") =>
             parseCalls' = parseCalls
        /\ (repoLoaded /\ repoOp'.op = "GetByID") => parseCalls' = parseCalls
        /\ repoLoaded => repoLoaded'
      ]_vars

\* Both clients hold a map from GetAll after a single parse, one of them has
\* deleted a key from its map, and the other map still has the cached keys.
C26_Witness ==
    /\ repoOp.op = "delete"
    /\ repoLoaded
    /\ parseCalls = 1
    /\ \A c \in Clients : held[c] # 0
    /\ KeysAt(heap, held["c1"]) # KeysAt(heap, held["c2"])
    /\ \E c \in Clients : KeysAt(heap, held[c]) = KeysAt(heap, repoInstances)
    /\ KeysAt(heap, repoInstances) # {}


\* C27: valuesEqual is symmetric and reflexive: the call valuesEqual(a, b)
\* returns what valuesEqual(b, a) returns, and it returns TRUE when a and b
\* are the same value.
C27_SymmetricAndReflexive ==
    eqPc = "returned" =>
        /\ eqResult = valuesEqual(eqB, eqA)
        /\ eqA = eqB => eqResult


\* C28: DetectMultiple always returns.  Whatever the number of instances, the
\* interleaving and the time of a cancellation, the collecting loop ends; when
\* it has ended every task has sent exactly one result and finished, the
\* closer has closed the channel and the channel is drained; and the channel
\* is closed only after the last task has finished.
C28_AlwaysReturns ==
    /\ <>Done
    /\ [](Done => /\ \A id \in AwsIds :
                       /\ taskPc[id] = "done"
                       /\ Cardinality({ i \in 1..Len(arrival) : arrival[i] = id }) = 1
                  /\ Len(arrival) = Cardinality(AwsIds)
                  /\ closerPc = "done"
                  /\ chanClosed
                  /\ results = << >>)
    /\ [][chanClosed' # chanClosed =>
             (wg = 0 /\ \A id \in AwsIds : taskPc[id] = "done")]_vars

\* DetectMultiple has returned after a cancellation that came during the call,
\* when a task had passed its check and another had not.
C28_Witness ==
    /\ Done
    /\ ctxDone
    /\ ~cancelledAtEntry
    /\ closerPc = "done"
    /\ \E id \in AwsIds : observed[id] = "canceled"
    /\ \E id \in AwsIds : observed[id] = "live"


\* The jobs of run r that hold a slot of the pool.
HoldersOf(r) == { p \in Holders : p[1] = r }

AllReturned == \A r \in RunIds : runPc[r] = "returned"

\* C29: every slot a job acquires is released exactly once on every exit
\* path.  The number of held slots is always the number of jobs between
\* acquisition and release; a Run that has returned has no job holding a
\* slot, and no slot is held when every Run has returned; and every Run
\* returns, also with more jobs than the cap, Execute returning each time.
C29_SlotsReleased ==
    /\ [](pool.sem = Cardinality(Holders))
    /\ [](\A r \in RunIds : runPc[r] = "returned" => HoldersOf(r) = {})
    /\ [](AllReturned => pool.sem = 0)
    /\ <>AllReturned

\* A Run with more jobs than the cap where a job that was cancelled after it
\* acquired its slot is about to release it, and another job has executed and
\* released its slot.
C29_Witness ==
    \E r \in RunIds :
        /\ Len(jobs[r]) > pool.concurrency
        /\ \E idx \in JobIdx(r) :
              /\ jobPc[r][idx + 1] = "release"
              /\ runResults[r][idx + 1] = CtxErrResult(idx)
        /\ \E idx \in JobIdx(r) :
              /\ jobPc[r][idx + 1] = "done"
              /\ runResults[r][idx + 1].Err # "context canceled"


\* The collections of the record are as convertEC2Instance builds them.
CollectionsFromConverter(rec) ==
    LET built == convertEC2Instance(rec.InstanceID, rec.InstanceType,
                                    rec.SecurityGroups.elems, rec.Tags.m)
    IN  /\ rec.SecurityGroups = built.SecurityGroups
        /\ rec.Tags = built.Tags

NoGroups(rec) == rec.SecurityGroups.elems = << >>

NoTags(rec) == DOMAIN rec.Tags.m = {}

\* C30: an absent (nil) collection and an empty one compare equal.  When both
\* records have no security groups, nil or empty, Detect reports no entry at
\* security_groups; when both have no tags, nil or empty, it reports none at
\* tags; so a record with the converter's non-nil empty collections has no
\* entry at these paths against a record whose collections are nil.
C30_NilEqualsEmpty ==
    dPc = "returned" =>
        /\ (NoGroups(dAws) /\ NoGroups(dTf)) => EntriesFor(<<"security_groups">>) = {}
        /\ (NoTags(dAws) /\ NoTags(dTf)) => EntriesFor(<<"tags">>) = {}
        /\ (/\ CollectionsFromConverter(dAws)
            /\ NoGroups(dAws) /\ NoTags(dAws)
            /\ dTf.SecurityGroups = NilSlice /\ dTf.Tags = NilMap) =>
                \A j \in 1..Len(dResult.DriftedAttrs) :
                    dResult.DriftedAttrs[j].Path \notin {<<"security_groups">>, <<"tags">>}

\* Detect returned, under a list with both paths, for a record with the
\* converter's empty collections against one whose collections are nil, and
\* reported drift of another attribute only.
C30_Witness ==
    /\ dPc = "returned"
    /\ \E i \in 1..Len(attributes) : attributes[i] = <<"security_groups">>
    /\ \E i \in 1..Len(attributes) : attributes[i] = <<"tags">>
    /\ CollectionsFromConverter(dAws)
    /\ NoGroups(dAws) /\ NoTags(dAws)
    /\ dTf.SecurityGroups = NilSlice /\ dTf.Tags = NilMap
    /\ dResult.HasDrift
    /\ EntriesFor(<<"security_groups">>) = {}
    /\ EntriesFor(<<"tags">>) = {}

====
